---- MODULE Spec2Model ----
(***************************************************************************)
(* A model of dbcat's terminal table renderer (src/src/table.ts).          *)
(*                                                                         *)
(* Strings are sequences of UTF-16 code units.  Every unit is one TLA+     *)
(* string that stands for a class of code units with the same display      *)
(* width: "a" (a narrow character), "W" (a double-width BMP glyph such as  *)
(* a CJK ideograph), " " (a space), "\n" (a newline), the ellipsis, the    *)
(* box-drawing glyphs, and the ANSI escape sequences RESET, DIM and BOLD,  *)
(* each of which is taken as one zero-width unit (Bun.stringWidth skips    *)
(* escape sequences).                                                      *)
(***************************************************************************)
EXTENDS Integers, Sequences, FiniteSets, TLC

VARIABLES
    tr,     \* one activation of truncate (position, arguments, locals)
    wl,     \* one activation of wrapLines
    hd,     \* the column-hiding loop of printTable
    pt,     \* one call of printTable: its arguments and what it wrote
    cli,    \* one run of main (src/src/index.ts)
    sh      \* the shrink loop of printTable's width compression

vars == <<tr, wl, hd, pt, cli, sh>>

---------------------------------------------------------------------------
(* Bounds of the model *)

MaxLen == 4          \* longest text handed to truncate / wrapLines
MaxWidth == 4        \* largest maxWidth handed to truncate / wrapLines
MaxColumns == 3      \* most keys of the first row handed to printTable
MaxRows == 2         \* most rows handed to printTable
MaxTermWidth == 22   \* widest terminal printTable draws on
MaxHideColumns == 8  \* most keys of the first row, for the hiding loop alone
MaxHideWidth == 50   \* widest terminal, for the hiding loop alone

---------------------------------------------------------------------------
(* Constants of table.ts *)

RESET == "ESC[0m"
DIM == "ESC[2m"
BOLD == "ESC[1m"
ELLIPSIS == "ellipsis"
minColWidth == 3
DefaultMaxRows == 100

BOX == [topLeft |-> "topLeft", topRight |-> "topRight",
        bottomLeft |-> "bottomLeft", bottomRight |-> "bottomRight",
        horizontal |-> "horizontal", vertical |-> "vertical",
        headerLeft |-> "headerLeft", headerRight |-> "headerRight",
        headerCross |-> "headerCross", topCross |-> "topCross",
        bottomCross |-> "bottomCross"]

Ansi == {RESET, DIM, BOLD, "ESC[33m"}
WideUnits == {"W"}
ControlUnits == {"\n"}

---------------------------------------------------------------------------
(* JavaScript and Bun primitives *)

Min(a, b) == IF a < b THEN a ELSE b
Max(a, b) == IF a > b THEN a ELSE b

\* String.prototype.slice / Array.prototype.slice(start, end): negative
\* indices count from the end, both are clamped to 0..length.
Slice(s, start, end) ==
    LET n == Len(s)
        from == IF start < 0 THEN Max(n + start, 0) ELSE Min(start, n)
        to == IF end < 0 THEN Max(n + end, 0) ELSE Min(end, n)
    IN  IF from >= to THEN <<>> ELSE SubSeq(s, from + 1, to)

SliceFrom(s, start) == Slice(s, start, Len(s))

UnitWidth(u) ==
    IF u \in WideUnits THEN 2
    ELSE IF u \in Ansi \cup ControlUnits THEN 0
    ELSE 1

\* Bun.stringWidth: the number of terminal columns a string occupies.
RECURSIVE StringWidth(_)
StringWidth(s) ==
    IF s = <<>> THEN 0 ELSE UnitWidth(Head(s)) + StringWidth(Tail(s))

DigitChars == <<"0", "1", "2", "3", "4", "5", "6", "7", "8", "9">>

\* String(n) for an integer n, as `${n}` computes it.
RECURSIVE NumberToString(_)
NumberToString(n) ==
    IF n < 0 THEN <<"-">> \o NumberToString(0 - n)
    ELSE IF n < 10 THEN <<DigitChars[n + 1]>>
    ELSE Append(NumberToString(n \div 10), DigitChars[(n % 10) + 1])

\* A JavaScript array or string with the elements f[1], f[2], ..., each
\* computed once, when the array is built.
Array(f) == f \o <<>>

\* " ".repeat(n), BOX.horizontal.repeat(n): defined for n >= 0 only
\* (String.prototype.repeat raises a RangeError for a negative count).
Repeat(u, n) == Array([i \in 1..n |-> u])

---------------------------------------------------------------------------
(* truncate(str, maxWidth) *)

\* Mutant: the comparison of the early return turned around.
TruncateReturnsInputInverted(str, maxWidth) == StringWidth(str) >= maxWidth

TruncateReturnsInput(str, maxWidth) == StringWidth(str) <= maxWidth

\* Mutant: the midpoint rounded down.
TruncateMidRoundedDown(low, high) == (low + high) \div 2

TruncateMid(low, high) == (low + high + 1) \div 2

\* Mutant: no column kept for the ellipsis.
TruncatePrefixFitsNoEllipsis(str, mid, maxWidth) ==
    StringWidth(Slice(str, 0, mid)) <= maxWidth

TruncatePrefixFits(str, mid, maxWidth) ==
    StringWidth(Slice(str, 0, mid)) + 1 <= maxWidth

\* Mutant: the search always continues in the lower half.
TruncateIterateLowerHalf(str, maxWidth, low, high) ==
    <<low, TruncateMid(low, high) - 1>>

\* One iteration of the binary search: the new <<low, high>>.
TruncateIterate(str, maxWidth, low, high) ==
    LET mid == TruncateMid(low, high)
    IN  IF TruncatePrefixFits(str, mid, maxWidth)
        THEN <<mid, high>>
        ELSE <<low, mid - 1>>

RECURSIVE TruncateSearch(_, _, _, _)
TruncateSearch(str, maxWidth, low, high) ==
    IF low < high
    THEN LET n == TruncateIterate(str, maxWidth, low, high)
         IN  TruncateSearch(str, maxWidth, n[1], n[2])
    ELSE low

TruncateResult(str, low, color) ==
    Slice(str, 0, low) \o <<ELLIPSIS>> \o (IF color THEN <<RESET>> ELSE <<>>)

truncate(str, maxWidth, color) ==
    IF TruncateReturnsInput(str, maxWidth)
    THEN str
    ELSE TruncateResult(str, TruncateSearch(str, maxWidth, 0, Len(str)), color)

padRight(str, width) ==
    LET strWidth == StringWidth(str)
    IN  IF strWidth >= width THEN str ELSE str \o Repeat(" ", width - strWidth)

padLeft(str, width) ==
    LET strWidth == StringWidth(str)
    IN  IF strWidth >= width THEN str ELSE Repeat(" ", width - strWidth) \o str

---------------------------------------------------------------------------
(* wrapLines(str, maxWidth) *)

\* str.split(/\n/g).join(" ")
NewlinesToSpaces(str) ==
    Array([i \in 1..Len(str) |-> IF str[i] = "\n" THEN " " ELSE str[i]])

\* raw.split(/([ ]+)/): the maximal runs of non-spaces and of spaces, in
\* order; the first and the last token are runs of non-spaces, empty when
\* raw starts or ends with a space.
RECURSIVE SplitRuns(_, _, _, _)
SplitRuns(rest, run, inSpaces, acc) ==
    IF rest = <<>>
    THEN IF inSpaces THEN acc \o <<run, <<>>>> ELSE Append(acc, run)
    ELSE IF (Head(rest) = " ") = inSpaces
         THEN SplitRuns(Tail(rest), Append(run, Head(rest)), inSpaces, acc)
         ELSE SplitRuns(Tail(rest), <<Head(rest)>>, ~inSpaces, Append(acc, run))

\* Mutant: every run of spaces becomes one space.
SplitOnSpacesCollapsed(raw) ==
    LET tokens == SplitRuns(raw, <<>>, FALSE, <<>>)
    IN  Array([i \in 1..Len(tokens) |->
            IF i % 2 = 0 THEN <<" ">> ELSE tokens[i]])

SplitOnSpaces(raw) == SplitRuns(raw, <<>>, FALSE, <<>>)

\* while (cutPoint < fragment.length && width(fragment.slice(0, cutPoint)) < maxWidth) cutPoint++
RECURSIVE WrapCutPoint(_, _, _)
WrapCutPoint(fragment, maxWidth, cutPoint) ==
    IF cutPoint < Len(fragment)
       /\ StringWidth(Slice(fragment, 0, cutPoint)) < maxWidth
    THEN WrapCutPoint(fragment, maxWidth, cutPoint + 1)
    ELSE cutPoint

\* One iteration of `while (fragment.length > 0)`.
WrapFragment(w, maxWidth) ==
    IF StringWidth(w.current \o w.fragment) > maxWidth
    THEN IF Len(w.current) > 0
         THEN [w EXCEPT !.lines = Append(@, w.current), !.current = <<>>]
         ELSE LET cutPoint == WrapCutPoint(w.fragment, maxWidth, 1)
              IN  [w EXCEPT !.lines = Append(@, Slice(w.fragment, 0, cutPoint)),
                            !.fragment = SliceFrom(w.fragment, cutPoint)]
    ELSE [w EXCEPT !.current = w.current \o w.fragment, !.fragment = <<>>]

\* The end of one iteration of `for (const token of tokens)`.
WrapTokenDone(w, maxWidth) ==
    IF StringWidth(w.current) >= maxWidth
    THEN [w EXCEPT !.lines = Append(@, w.current), !.current = <<>>, !.i = @ + 1]
    ELSE [w EXCEPT !.i = @ + 1]

\* After the loop over the tokens.
WrapFinish(w) ==
    IF Len(w.current) > 0 THEN Append(w.lines, w.current) ELSE w.lines

RECURSIVE WrapWhile(_, _)
WrapWhile(w, maxWidth) ==
    IF Len(w.fragment) > 0
    THEN WrapWhile(WrapFragment(w, maxWidth), maxWidth)
    ELSE w

RECURSIVE WrapFor(_, _)
WrapFor(w, maxWidth) ==
    IF w.i <= Len(w.tokens)
    THEN WrapFor(WrapTokenDone(WrapWhile([w EXCEPT !.fragment = w.tokens[w.i]],
                                         maxWidth), maxWidth), maxWidth)
    ELSE WrapFinish(w)

WrapStart(raw) ==
    [tokens |-> SplitOnSpaces(raw), i |-> 1, fragment |-> <<>>,
     current |-> <<>>, lines |-> <<>>]

wrapLines(str, maxWidth) ==
    LET raw == NewlinesToSpaces(str)
    IN  IF raw = <<>> THEN << <<>> >> ELSE WrapFor(WrapStart(raw), maxWidth)

---------------------------------------------------------------------------
(* printTable: column hiding (lines 190-204) *)

\* Mutant: the separator of the first column counted too.
AvailableForColumnsNoFirst(termWidth, n) == termWidth - (4 + n * 3)

\* termWidth - borderOverhead, for n columns (lines 191-192 and 203)
AvailableForColumns(termWidth, n) == termWidth - (4 + (n - 1) * 3)

\* Mutant: the comparison with the available width turned around.
HideConditionInverted(columns, availableForColumns) ==
    /\ Len(columns) * minColWidth < availableForColumns
    /\ Len(columns) > 1

\* Mutant: no floor of one column.
HideConditionNoFloor(columns, availableForColumns) ==
    Len(columns) * minColWidth > availableForColumns /\ Len(columns) > 0

\* The condition of the hiding loop (lines 197-200).
HideCondition(columns, availableForColumns) ==
    /\ Len(columns) * minColWidth > availableForColumns
    /\ Len(columns) > 1

\* One iteration of the hiding loop (lines 201-203).
HideIterate(h, termWidth) ==
    LET columns == Slice(h.columns, 0, 0 - 1)
    IN  [h EXCEPT !.columns = columns,
                  !.hiddenCols = @ + 1,
                  !.availableForColumns = AvailableForColumns(termWidth, Len(columns))]

\* Lines 191-195.
HideStart(allColumns, termWidth) ==
    [columns |-> allColumns, hiddenCols |-> 0,
     availableForColumns |-> AvailableForColumns(termWidth, Len(allColumns))]

RECURSIVE HideLoop(_, _)
HideLoop(h, termWidth) ==
    IF HideCondition(h.columns, h.availableForColumns)
    THEN HideLoop(HideIterate(h, termWidth), termWidth)
    ELSE h

HideColumns(allColumns, termWidth) == HideLoop(HideStart(allColumns, termWidth), termWidth)

---------------------------------------------------------------------------
(* formatValue (lines 23-33) *)

\* Cell values: null, undefined (also a key the row lacks), a number or a
\* bigint with its decimal digits, a string with its code units.
Null == [t |-> "null", v |-> <<>>]
Undefined == [t |-> "undefined", v |-> <<>>]
Number(digits) == [t |-> "number", v |-> digits]
BigInt(digits) == [t |-> "bigint", v |-> digits]
String(units) == [t |-> "string", v |-> units]

\* Bun.inspect of a number or a bigint: its digits (a bigint ends in n),
\* wrapped in a color escape and a reset when colors are on.
Inspect(value, color) ==
    LET text == IF value.t = "bigint" THEN Append(value.v, "n") ELSE value.v
    IN  IF color THEN <<"ESC[33m">> \o text \o <<RESET>> ELSE text

formatValue(value, color) ==
    IF value.t \in {"null", "undefined"}
    THEN (IF color THEN <<DIM>> ELSE <<>>) \o <<"N", "U", "L", "L">>
         \o (IF color THEN <<RESET>> ELSE <<>>)
    ELSE IF value.t = "string" THEN value.v
    ELSE Inspect(value, color)

\* Mutant: the newlines of a cell left as they are.
EscapeNewlinesKept(s) == s

\* .replace(/\n/g, "\\n"): a newline becomes a backslash and an n
RECURSIVE EscapeNewlines(_)
EscapeNewlines(s) ==
    IF s = <<>> THEN <<>>
    ELSE (IF Head(s) = "\n" THEN <<"\\", "n">> ELSE <<Head(s)>>)
         \o EscapeNewlines(Tail(s))

---------------------------------------------------------------------------
(* printTable: layout (lines 164-269) *)

RECURSIVE Sum(_)
Sum(ws) == IF ws = <<>> THEN 0 ELSE Head(ws) + Sum(Tail(ws))

\* An optional number of TableOptions: left out, Infinity, or an integer.
Unset == [is |-> "unset", n |-> 0]
Infinity == [is |-> "Infinity", n |-> 0]
Int32(n) == [is |-> "number", n |-> n]

\* rows cut at the default cap, also for maxRows Infinity
DisplayRowsCapped(rows, maxRows) ==
    Slice(rows, 0, IF maxRows.is = "number" THEN maxRows.n ELSE DefaultMaxRows)

\* lines 126 and 164-165
DisplayRows(rows, maxRows) ==
    IF maxRows.is = "Infinity" THEN rows
    ELSE Slice(rows, 0, IF maxRows.is = "unset" THEN DefaultMaxRows ELSE maxRows.n)

\* lines 169-179
IsNumericCol(displayRows, i) ==
    \A r \in 1..Len(displayRows) :
        displayRows[r][i].t \in {"null", "undefined", "number", "bigint"}

\* lines 182-188
FormattedRows(displayRows, n, color) ==
    Array([r \in 1..Len(displayRows) |->
        Array([i \in 1..n |-> EscapeNewlines(formatValue(displayRows[r][i], color))])])

\* lines 183-186: Math.max over the header and every cell of column i
MaxCellWidth(formattedRows, i, sofar) ==
    LET ws == {sofar} \cup {StringWidth(formattedRows[r][i]) :
                                r \in 1..Len(formattedRows)}
    IN  CHOOSE w \in ws : \A v \in ws : v <= w

\* lines 181-188: the natural width of every column
ColWidths(allColumns, formattedRows) ==
    Array([i \in 1..Len(allColumns) |->
        MaxCellWidth(formattedRows, i, StringWidth(allColumns[i]))])

\* f * (sqrt(a) + sqrt(b1) + ...) <= A * sqrt(a), decided in integers by
\* squaring, for at most two other columns b.
FairAtLeast(f, A, a, others) ==
    CASE Len(others) = 0 -> f <= A
      [] Len(others) = 1 ->
            /\ A - f >= 0
            /\ f * f * others[1] <= (A - f) * (A - f) * a
      [] Len(others) = 2 ->
            LET D == (A - f) * (A - f) * a - f * f * (others[1] + others[2])
            IN  /\ A - f >= 0
                /\ D >= 0
                /\ 4 * f * f * f * f * others[1] * others[2] <= D * D

WithoutIndex(ws, i) == SubSeq(ws, 1, i - 1) \o SubSeq(ws, i + 1, Len(ws))

\* Math.floor((sqrtWidths[i] / sqrtTotal) * availableForColumns), lines
\* 218-224, for one to three visible columns of non-zero natural width
\* (with one column the quotient is 1 and the product availableForColumns;
\* with more, the hiding loop has left availableForColumns >= 0).
FairShare(ws, i, availableForColumns) ==
    IF Len(ws) = 1 THEN availableForColumns
    ELSE CHOOSE f \in 0..availableForColumns :
            /\ FairAtLeast(f, availableForColumns, ws[i], WithoutIndex(ws, i))
            /\ ~FairAtLeast(f + 1, availableForColumns, ws[i], WithoutIndex(ws, i))

\* lines 215-217
HeaderWidths(columns) ==
    Array([i \in 1..Len(columns) |-> Max(minColWidth, StringWidth(columns[i]))])

\* lines 221-226
FairWidths(ws, columns, availableForColumns) ==
    LET headerWidths == HeaderWidths(columns)
    IN  Array([i \in 1..Len(ws) |->
            Max(headerWidths[i], FairShare(ws, i, availableForColumns))])

\* Mutant: the loop stops one unit above the available width.
ShrinkConditionOneOver(ws, totalWidth, availableForColumns) ==
    /\ totalWidth > availableForColumns + 1
    /\ \E i \in 1..Len(ws) : ws[i] > minColWidth

\* lines 229-232: the condition of the shrink loop
ShrinkCondition(ws, totalWidth, availableForColumns) ==
    /\ totalWidth > availableForColumns
    /\ \E i \in 1..Len(ws) : ws[i] > minColWidth

\* Mutant: the last index holding the largest width.
RECURSIVE MaxIdxLast(_, _, _)
MaxIdxLast(ws, i, maxIdx) ==
    IF i > Len(ws) THEN maxIdx
    ELSE MaxIdxLast(ws, i + 1, IF ws[i] >= ws[maxIdx] THEN i ELSE maxIdx)

\* lines 233-236: the first index holding the largest width
RECURSIVE MaxIdx(_, _, _)
MaxIdx(ws, i, maxIdx) ==
    IF i > Len(ws) THEN maxIdx
    ELSE MaxIdx(ws, i + 1, IF ws[i] > ws[maxIdx] THEN i ELSE maxIdx)

\* Mutant: the widest column loses two units.
ShrinkIterateByTwo(ws) == [ws EXCEPT ![MaxIdx(ws, 2, 1)] = @ - 2]

\* lines 233-238: one iteration of the shrink loop
ShrinkIterate(ws) == [ws EXCEPT ![MaxIdx(ws, 2, 1)] = @ - 1]

RECURSIVE ShrinkLoop(_, _, _)
ShrinkLoop(ws, totalWidth, availableForColumns) ==
    IF ShrinkCondition(ws, totalWidth, availableForColumns)
    THEN ShrinkLoop(ShrinkIterate(ws), totalWidth - 1, availableForColumns)
    ELSE ws

\* Mutant: widths that fill the available width exactly are compressed too.
CompressWidthsWhenFull(ws, columns, availableForColumns) ==
    IF Sum(ws) >= availableForColumns
    THEN LET fair == FairWidths(ws, columns, availableForColumns)
         IN  ShrinkLoop(fair, Sum(fair), availableForColumns)
    ELSE ws

\* lines 212-240
CompressWidths(ws, columns, availableForColumns) ==
    IF Sum(ws) > availableForColumns
    THEN LET fair == FairWidths(ws, columns, availableForColumns)
         IN  ShrinkLoop(fair, Sum(fair), availableForColumns)
    ELSE ws

Text(n, singular) ==
    NumberToString(n) \o singular \o (IF n > 1 THEN <<"s">> ELSE <<>>)

MoreRow == <<" ", "m", "o", "r", "e", " ", "r", "o", "w">>
MoreColumn == <<" ", "m", "o", "r", "e", " ", "c", "o", "l", "u", "m", "n">>

\* the total, without taking off the rows that were drawn
TruncatedRowsNotSubtracted(actualTotal, drawn) ==
    IF actualTotal > drawn THEN actualTotal ELSE 0

\* lines 243-244
TruncatedRows(actualTotal, drawn) ==
    IF actualTotal > drawn THEN actualTotal - drawn ELSE 0

\* a notice for the rows only
InfoTextRowsOnly(truncatedRows, hiddenCols) ==
    IF truncatedRows > 0
    THEN <<".", ".", ".", " ">> \o Text(truncatedRows, MoreRow)
    ELSE <<>>

\* lines 245-253
InfoText(truncatedRows, hiddenCols) ==
    IF truncatedRows > 0 \/ hiddenCols > 0
    THEN <<".", ".", ".", " ">>
         \o (IF truncatedRows > 0 THEN Text(truncatedRows, MoreRow) ELSE <<>>)
         \o (IF truncatedRows > 0 /\ hiddenCols > 0 THEN <<",", " ">> ELSE <<>>)
         \o (IF hiddenCols > 0 THEN Text(hiddenCols, MoreColumn) ELSE <<>>)
    ELSE <<>>

\* lines 255-263
InnerWidth(contentWidth, title, termWidth) ==
    LET titleWidth == IF title # <<>> THEN StringWidth(title) + 4 ELSE 0
        maxInnerWidth == termWidth - 4
    IN  Min(Max(contentWidth, titleWidth), maxInnerWidth)

\* the extra width given to the first column
ExpandFirst(ws, innerWidth, contentWidth) ==
    IF innerWidth > contentWidth /\ Len(ws) > 0
    THEN [ws EXCEPT ![1] = @ + (innerWidth - contentWidth)]
    ELSE ws

\* lines 267-269
ExpandLast(ws, innerWidth, contentWidth) ==
    IF innerWidth > contentWidth /\ Len(ws) > 0
    THEN [ws EXCEPT ![Len(ws)] = @ + (innerWidth - contentWidth)]
    ELSE ws

\* Everything printTable computes before it writes the first line.
Layout(keys, rows, options, termWidth, color) ==
    LET displayRows == DisplayRows(rows, options.maxRows)
        allColumns == keys
        formattedRows == FormattedRows(displayRows, Len(allColumns), color)
        colWidths == ColWidths(allColumns, formattedRows)
        hidden == HideColumns(allColumns, termWidth)
        n == Len(hidden.columns)
        compressed == CompressWidths(Slice(colWidths, 0, n), hidden.columns,
                                     hidden.availableForColumns)
        actualTotal == IF options.totalRows.is = "unset" THEN Len(rows)
                       ELSE options.totalRows.n
        truncatedRows == TruncatedRows(actualTotal, Len(displayRows))
        contentWidth == Sum(compressed) + (n - 1) * 3
        innerWidth == InnerWidth(contentWidth, options.title, termWidth)
    IN  [displayRows |-> displayRows,
         columns |-> hidden.columns,
         hiddenCols |-> hidden.hiddenCols,
         availableForColumns |-> hidden.availableForColumns,
         naturalWidths |-> Slice(colWidths, 0, n),
         compressedWidths |-> compressed,
         visibleFormattedRows |->
             Array([r \in 1..Len(formattedRows) |-> Slice(formattedRows[r], 0, n)]),
         visibleIsNumeric |-> Array([i \in 1..n |-> IsNumericCol(displayRows, i)]),
         truncatedRows |-> truncatedRows,
         infoText |-> InfoText(truncatedRows, hidden.hiddenCols),
         contentWidth |-> contentWidth,
         innerWidth |-> innerWidth,
         totalInnerWidth |-> innerWidth + 2,
         visibleColWidths |-> ExpandLast(compressed, innerWidth, contentWidth)]

---------------------------------------------------------------------------
(* printTable: the lines written (lines 131-162 and 271-362) *)

RECURSIVE Join(_, _)
Join(parts, sep) ==
    IF parts = <<>> THEN <<>>
    ELSE IF Len(parts) = 1 THEN parts[1]
    ELSE LET half == Len(parts) \div 2
         IN  Join(SubSeq(parts, 1, half), sep) \o sep
             \o Join(SubSeq(parts, half + 1, Len(parts)), sep)

Dim(color) == IF color THEN <<DIM>> ELSE <<>>
Reset(color) == IF color THEN <<RESET>> ELSE <<>>
Bold(color) == IF color THEN <<BOLD>> ELSE <<>>

\* One console.log: the line, or the exception raised while building it.
Logged(line) == [threw |-> FALSE, line |-> line]
Raised == [threw |-> TRUE, line |-> <<>>]

\* widths.map(w => BOX.horizontal.repeat(w)).join(horizontal + cross + horizontal)
Rule(widths, cross) ==
    Join(Array([i \in 1..Len(widths) |-> Repeat(BOX.horizontal, widths[i])]),
         <<BOX.horizontal, cross, BOX.horizontal>>)

RuleThrows(widths) == \E i \in 1..Len(widths) : widths[i] < 0

Border(widths, left, cross, right) ==
    <<left, BOX.horizontal>> \o Rule(widths, cross) \o <<BOX.horizontal, right>>

\* a top border whose title is cut to what the border has room for
TopBorderLineTitleCut(widths, title, color) ==
    LET fullTopBorder == Border(widths, BOX.topLeft, BOX.topCross, BOX.topRight)
        titleDisplay == <<" ">> \o truncate(title, Len(fullTopBorder) - 5, FALSE)
                        \o <<" ">>
        beforeTitle == Slice(fullTopBorder, 0, 2)
        afterTitle == SliceFrom(fullTopBorder, 2 + StringWidth(titleDisplay))
    IN  IF RuleThrows(widths) THEN Raised
        ELSE IF title # <<>>
        THEN Logged(Dim(color) \o beforeTitle \o Reset(color) \o Bold(color)
                    \o titleDisplay \o Reset(color) \o Dim(color) \o afterTitle
                    \o Reset(color))
        ELSE Logged(Dim(color) \o fullTopBorder \o Reset(color))

\* lines 271-286
TopBorderLine(widths, title, color) ==
    LET fullTopBorder == Border(widths, BOX.topLeft, BOX.topCross, BOX.topRight)
        titleDisplay == <<" ">> \o title \o <<" ">>
        beforeTitle == Slice(fullTopBorder, 0, 2)
        afterTitle == SliceFrom(fullTopBorder, 2 + StringWidth(titleDisplay))
    IN  IF RuleThrows(widths) THEN Raised
        ELSE IF title # <<>>
        THEN Logged(Dim(color) \o beforeTitle \o Reset(color) \o Bold(color)
                    \o titleDisplay \o Reset(color) \o Dim(color) \o afterTitle
                    \o Reset(color))
        ELSE Logged(Dim(color) \o fullTopBorder \o Reset(color))

\* a cell that is padded on the right whatever the column holds
CellPaddedRight(text, width, numeric, color) ==
    padRight(truncate(text, width, color), width)

\* truncate, then padLeft for a numeric column and padRight otherwise
Cell(text, width, numeric, color) ==
    IF numeric THEN padLeft(truncate(text, width, color), width)
    ELSE padRight(truncate(text, width, color), width)

\* cells joined by ` ${dim}│${reset} ` between `${dim}│${reset} ` and ` ${dim}│${reset}`
RowLine(cells, color) ==
    Dim(color) \o <<BOX.vertical>> \o Reset(color) \o <<" ">>
    \o Join(cells, <<" ">> \o Dim(color) \o <<BOX.vertical>> \o Reset(color) \o <<" ">>)
    \o <<" ">> \o Dim(color) \o <<BOX.vertical>> \o Reset(color)

\* lines 288-298
HeaderLine(columns, widths, isNumeric, color) ==
    Logged(RowLine(Array([i \in 1..Len(columns) |->
                       Cell(columns[i], widths[i], isNumeric[i], color)]), color))

\* lines 300-305 and 323-326
SeparatorLine(widths, color) ==
    IF RuleThrows(widths) THEN Raised
    ELSE Logged(Dim(color)
                \o Border(widths, BOX.headerLeft, BOX.headerCross, BOX.headerRight)
                \o Reset(color))

\* lines 330-342: one line for one row
DataLine(row, widths, isNumeric, color) ==
    Logged(RowLine(Array([i \in 1..Len(row) |->
                       Cell(row[i], widths[i], isNumeric[i], color)]), color))

\* Math.max(...wrapped.map(x => x.length)): -Infinity without columns, so
\* that no line is drawn
RowHeight(wrapped) ==
    IF wrapped = <<>> THEN 0
    ELSE CHOOSE h \in {Len(wrapped[i]) : i \in 1..Len(wrapped)} :
            \A i \in 1..Len(wrapped) : Len(wrapped[i]) <= h

\* lines 309-321: the lines of one row in full-content mode
WrappedRowLines(row, widths, isNumeric, color) ==
    LET wrapped == Array([i \in 1..Len(row) |-> wrapLines(row[i], widths[i])])
    IN  Array([lineIdx \in 1..RowHeight(wrapped) |->
            Logged(RowLine(Array([i \in 1..Len(row) |->
                LET part == IF lineIdx <= Len(wrapped[i])
                            THEN wrapped[i][lineIdx] ELSE <<>>
                IN  Cell(part, widths[i], isNumeric[i], color)]), color))])

\* lines 307-343
DataLines(rowsLeft, widths, isNumeric, fullContent, color) ==
    Join(Array([r \in 1..Len(rowsLeft) |->
            IF fullContent
            THEN WrappedRowLines(rowsLeft[r], widths, isNumeric, color)
                 \o (IF r < Len(rowsLeft)
                     THEN <<SeparatorLine(widths, color)>> ELSE <<>>)
            ELSE <<DataLine(rowsLeft[r], widths, isNumeric, color)>>]), <<>>)

\* lines 345-348
TrailerLine(infoText, innerWidth, color) ==
    Logged(Dim(color) \o <<BOX.vertical, " ">>
           \o padRight(truncate(infoText, innerWidth, color), innerWidth)
           \o <<" ", BOX.vertical>> \o Reset(color))

\* lines 350-354: the bottom border below a trailer
TrailerBottomLine(totalInnerWidth, color) ==
    IF totalInnerWidth < 0 THEN Raised
    ELSE Logged(Dim(color) \o <<BOX.bottomLeft>>
                \o Repeat(BOX.horizontal, totalInnerWidth)
                \o <<BOX.bottomRight>> \o Reset(color))

\* lines 356-361
BottomLine(widths, color) ==
    IF RuleThrows(widths) THEN Raised
    ELSE Logged(Dim(color)
                \o Border(widths, BOX.bottomLeft, BOX.bottomCross, BOX.bottomRight)
                \o Reset(color))

\* lines 131-162: no rows
EmptyText == <<"(", "e", "m", "p", "t", "y", ")">>

\* the bare line, whether or not there is a title
EmptyTableBare(title, color) == << Logged(EmptyText) >>

EmptyTable(title, color) ==
    IF title # <<>>
    THEN LET contentWidth == Max(StringWidth(EmptyText), StringWidth(title))
             titleDisplay == <<" ">> \o title \o <<" ">>
             titleWidth == StringWidth(titleDisplay)
             innerWidth == contentWidth + 2
             remainingWidth == innerWidth - titleWidth - 1
         IN  << Logged(Dim(color) \o <<BOX.topLeft, BOX.horizontal>> \o Reset(color)
                       \o Bold(color) \o titleDisplay \o Reset(color) \o Dim(color)
                       \o Repeat(BOX.horizontal, Max(0, remainingWidth))
                       \o <<BOX.topRight>> \o Reset(color)),
                Logged(Dim(color) \o <<BOX.vertical>> \o Reset(color) \o <<" ">>
                       \o padRight(EmptyText, contentWidth) \o <<" ">>
                       \o Dim(color) \o <<BOX.vertical>> \o Reset(color)),
                Logged(Dim(color) \o <<BOX.bottomLeft>>
                       \o Repeat(BOX.horizontal, innerWidth)
                       \o <<BOX.bottomRight>> \o Reset(color)) >>
    ELSE << Logged(EmptyText) >>

\* lines 271-362: every console.log of a table with rows, in order
TableLines(l, options, color) ==
    <<TopBorderLine(l.visibleColWidths, options.title, color),
      HeaderLine(l.columns, l.visibleColWidths, l.visibleIsNumeric, color),
      SeparatorLine(l.visibleColWidths, color)>>
    \o DataLines(l.visibleFormattedRows, l.visibleColWidths, l.visibleIsNumeric,
                 options.fullContent, color)
    \o (IF l.infoText # <<>>
        THEN <<TrailerLine(l.infoText, l.innerWidth, color),
               TrailerBottomLine(l.totalInnerWidth, color)>>
        ELSE <<BottomLine(l.visibleColWidths, color)>>)

\* What reaches the console: the lines before the first exception.
Written(logs) ==
    LET before == {k \in 0..Len(logs) : \A j \in 1..k : ~logs[j].threw}
        n == CHOOSE k \in before : \A j \in before : j <= k
    IN  Array([k \in 1..n |-> logs[k].line])

Throws(logs) == \E k \in 1..Len(logs) : logs[k].threw

\* printTable(rows, options) on a terminal of termWidth columns: the lines
\* written, whether an exception ended the call, and the layout.
printTable(keys, rows, options, termWidth, color) ==
    IF Len(rows) = 0
    THEN [out |-> Written(EmptyTable(options.title, color)), threw |-> FALSE,
          layout |-> <<>>]
    ELSE IF DisplayRows(rows, options.maxRows) = <<>>
    THEN \* line 166: Object.keys(undefined) raises a TypeError
         [out |-> <<>>, threw |-> TRUE, layout |-> <<>>]
    ELSE LET l == Layout(keys, rows, options, termWidth, color)
             logs == TableLines(l, options, color)
         IN  [out |-> Written(logs), threw |-> Throws(logs), layout |-> l]

---------------------------------------------------------------------------
(* The text routines, one iteration per step *)

TextAlphabet == {"a", "W", " ", "\n"}
Texts == UNION {[1..k -> TextAlphabet] : k \in 0..MaxLen}
Widths == (0 - 1)..MaxWidth

TrIdle == [pc |-> "idle", str |-> <<>>, maxWidth |-> 0, color |-> FALSE,
           low |-> 0, high |-> 0, result |-> <<>>, pass |-> 0, first |-> <<>>]
WlIdle == [pc |-> "idle", str |-> <<>>, maxWidth |-> 0, tokens |-> <<>>, i |-> 0,
           fragment |-> <<>>, current |-> <<>>, lines |-> <<>>]
HdIdle == [pc |-> "idle", allColumns |-> <<>>, termWidth |-> 0, columns |-> <<>>,
           hiddenCols |-> 0, availableForColumns |-> 0,
           prevWidth |-> 0, prevVisible |-> 0]
PtIdle == [pc |-> "idle", keys |-> <<>>, rows |-> <<>>, options |-> <<>>,
           termWidth |-> 0, color |-> FALSE, out |-> <<>>, threw |-> FALSE,
           layout |-> <<>>]
ShIdle == [pc |-> "idle", columns |-> <<>>, naturalWidths |-> <<>>,
           availableForColumns |-> 0, ws |-> <<>>, totalWidth |-> 0,
           before |-> <<>>]
NoFault == [at |-> "none", message |-> <<>>]
CliIdle == [pc |-> "idle", json |-> "false", isTTY |-> FALSE, keys |-> <<>>,
            answer |-> <<>>, results |-> <<>>, stdout |-> <<>>,
            input |-> FALSE, env |-> FALSE, full |-> FALSE, piped |-> FALSE,
            tables |-> <<>>, next |-> 0, fault |-> NoFault, message |-> <<>>,
            raised |-> "none",
            stderr |-> <<>>, exitCode |-> 0 - 1]

InitText ==
    /\ hd = HdIdle
    /\ pt = PtIdle
    /\ cli = CliIdle
    /\ sh = ShIdle
    /\ \E s \in Texts, w \in Widths :
         \/ /\ \E c \in BOOLEAN :
                 tr = [TrIdle EXCEPT !.pc = "call", !.str = s, !.maxWidth = w,
                                     !.color = c, !.pass = 1]
            /\ wl = WlIdle
         \/ /\ tr = TrIdle
            /\ wl = [WlIdle EXCEPT !.pc = "call", !.str = s, !.maxWidth = w]

\* lines 36-42: the early return, or the start of the binary search
TruncateEnter ==
    /\ tr.pc = "call"
    /\ tr' = IF TruncateReturnsInput(tr.str, tr.maxWidth)
             THEN [tr EXCEPT !.pc = "done", !.result = tr.str]
             ELSE [tr EXCEPT !.pc = "search", !.low = 0, !.high = Len(tr.str)]
    /\ UNCHANGED <<wl, hd, pt, cli, sh>>

\* lines 44-51: one iteration of the binary search
TruncateLoop ==
    /\ tr.pc = "search"
    /\ tr.low < tr.high
    /\ LET n == TruncateIterate(tr.str, tr.maxWidth, tr.low, tr.high)
       IN  tr' = [tr EXCEPT !.low = n[1], !.high = n[2]]
    /\ UNCHANGED <<wl, hd, pt, cli, sh>>

\* lines 53-54
TruncateReturn ==
    /\ tr.pc = "search"
    /\ ~(tr.low < tr.high)
    /\ tr' = [tr EXCEPT !.pc = "done",
                        !.result = TruncateResult(tr.str, tr.low, tr.color)]
    /\ UNCHANGED <<wl, hd, pt, cli, sh>>

\* truncate applied to its own result, with the same maxWidth
TruncateAgain ==
    /\ tr.pc = "done"
    /\ tr.pass = 1
    /\ tr' = [tr EXCEPT !.pc = "call", !.pass = 2, !.first = tr.result,
                        !.str = tr.result, !.result = <<>>, !.low = 0, !.high = 0]
    /\ UNCHANGED <<wl, hd, pt, cli, sh>>

\* lines 82-88
WrapEnter ==
    /\ wl.pc = "call"
    /\ LET raw == NewlinesToSpaces(wl.str)
       IN  wl' = IF raw = <<>>
                 THEN [wl EXCEPT !.pc = "done", !.lines = << <<>> >>]
                 ELSE [pc |-> "for", str |-> wl.str, maxWidth |-> wl.maxWidth]
                      @@ WrapStart(raw)
    /\ UNCHANGED <<tr, hd, pt, cli, sh>>

\* line 89-90: the next token becomes the fragment
WrapNextToken ==
    /\ wl.pc = "for"
    /\ wl.i <= Len(wl.tokens)
    /\ wl' = [wl EXCEPT !.pc = "while", !.fragment = wl.tokens[wl.i]]
    /\ UNCHANGED <<tr, hd, pt, cli, sh>>

\* lines 91-109: one iteration of the loop over the fragment
WrapLoop ==
    /\ wl.pc = "while"
    /\ Len(wl.fragment) > 0
    /\ wl' = WrapFragment(wl, wl.maxWidth)
    /\ UNCHANGED <<tr, hd, pt, cli, sh>>

\* lines 110-113: the fragment is used up
WrapEndToken ==
    /\ wl.pc = "while"
    /\ Len(wl.fragment) = 0
    /\ wl' = [WrapTokenDone(wl, wl.maxWidth) EXCEPT !.pc = "for"]
    /\ UNCHANGED <<tr, hd, pt, cli, sh>>

\* lines 115-119
WrapReturn ==
    /\ wl.pc = "for"
    /\ wl.i > Len(wl.tokens)
    /\ wl' = [wl EXCEPT !.pc = "done", !.lines = WrapFinish(wl), !.current = <<>>]
    /\ UNCHANGED <<tr, hd, pt, cli, sh>>

NextText ==
    \/ TruncateEnter
    \/ TruncateLoop
    \/ TruncateReturn
    \/ TruncateAgain
    \/ WrapEnter
    \/ WrapNextToken
    \/ WrapLoop
    \/ WrapEndToken
    \/ WrapReturn

SpecText == InitText /\ [][NextText]_vars

\* The routines are synchronous code: an iteration that can run does run.
FairSpecText == SpecText /\ WF_vars(NextText)

---------------------------------------------------------------------------
(* The column-hiding loop, one iteration per step, at two terminal widths *)

\* The keys of a first row with n columns: short names, or names wider than
\* the minimum column width.
ColumnNames(n, long) ==
    Array([i \in 1..n |->
        (IF long THEN <<"W", "W", "a">> ELSE <<"a">>) \o NumberToString(i)])

InitHide ==
    /\ tr = TrIdle
    /\ wl = WlIdle
    /\ pt = PtIdle
    /\ cli = CliIdle
    /\ sh = ShIdle
    /\ \E n \in 0..MaxHideColumns, long \in BOOLEAN, t \in 1..MaxHideWidth :
         hd = [HdIdle EXCEPT !.pc = "call", !.allColumns = ColumnNames(n, long),
                             !.termWidth = t]

\* lines 190-195
HideEnter ==
    /\ hd.pc = "call"
    /\ hd' = [pc |-> "loop", allColumns |-> hd.allColumns, termWidth |-> hd.termWidth,
              prevWidth |-> hd.prevWidth, prevVisible |-> hd.prevVisible]
             @@ HideStart(hd.allColumns, hd.termWidth)
    /\ UNCHANGED <<tr, wl, pt, cli, sh>>

\* lines 197-204: the rightmost column is dropped
HideColumn ==
    /\ hd.pc = "loop"
    /\ HideCondition(hd.columns, hd.availableForColumns)
    /\ hd' = HideIterate(hd, hd.termWidth)
    /\ UNCHANGED <<tr, wl, pt, cli, sh>>

\* the loop condition fails
HideExit ==
    /\ hd.pc = "loop"
    /\ ~HideCondition(hd.columns, hd.availableForColumns)
    /\ hd' = [hd EXCEPT !.pc = "done"]
    /\ UNCHANGED <<tr, wl, pt, cli, sh>>

\* The same rows are rendered again after the terminal was resized.
HideResized ==
    /\ hd.pc = "done"
    /\ hd.prevWidth = 0
    /\ \E t \in 1..MaxHideWidth :
         hd' = [HdIdle EXCEPT !.pc = "call", !.allColumns = hd.allColumns,
                              !.termWidth = t, !.prevWidth = hd.termWidth,
                              !.prevVisible = Len(hd.columns)]
    /\ UNCHANGED <<tr, wl, pt, cli, sh>>

NextHide ==
    \/ HideEnter
    \/ HideColumn
    \/ HideExit
    \/ HideResized

SpecHide == InitHide /\ [][NextHide]_vars

\* printTable is synchronous: the loop runs until its condition fails.
FairSpecHide == SpecHide /\ WF_vars(HideEnter \/ HideColumn \/ HideExit)

---------------------------------------------------------------------------
(* printTable, one call per behaviour *)

LongText == <<"a", "W", " ", "a", "a", "\n", "a">>
ShortText == <<"a", "W">>

\* The rows handed to printTable: all numbers, or a mix of texts, null,
\* undefined (also a key the row lacks), bigint and numbers.
DataSets == {"numbers", "mixed"}

MixedValues == <<Null, String(ShortText), Number(<<"7">>), Undefined,
                 BigInt(<<"1", "2">>), String(LongText)>>

CellAt(data, r, i) ==
    CASE data = "numbers" -> Number(NumberToString(r + 10 * (i - 1)))
      [] data = "mixed" -> MixedValues[((2 * r + i) % Len(MixedValues)) + 1]

Rows(data, nRows, nCols) ==
    Array([r \in 1..nRows |-> Array([i \in 1..nCols |-> CellAt(data, r, i)])])

\* The first element replaced: a key "" and the value "" under it.
BlankFirst(row, value) == <<value>> \o Tail(row)
BlankFirstColumn(rows) ==
    Array([r \in 1..Len(rows) |-> BlankFirst(rows[r], String(<<>>))])

Titles == {<<>>, <<"t">>,
           <<"t", "W", "t", "t", "t", "t", "t", "t", "t", "t", "t">>}
MaxRowsOptions == {Unset, Infinity, Int32(0), Int32(1)}
TotalRowsOptions == {Unset, Int32(1), Int32(1000)}

InitTable ==
    /\ tr = TrIdle
    /\ wl = WlIdle
    /\ hd = HdIdle
    /\ cli = CliIdle
    /\ sh = ShIdle
    /\ \E nCols \in 0..MaxColumns, nRows \in (0..MaxRows) \cup {DefaultMaxRows + 1},
          long \in BOOLEAN, blank \in BOOLEAN,
          data \in DataSets, t \in 1..MaxTermWidth, title \in Titles,
          maxRows \in MaxRowsOptions, totalRows \in TotalRowsOptions,
          fullContent \in BOOLEAN, color \in BOOLEAN :
         \* no rows: no keys; no keys: no cells; wide names head mixed cells
         /\ (nRows = 0 => nCols = 0)
         /\ (nCols = 0 => data = "numbers")
         /\ (long => data = "mixed")
         \* a first column named "" that holds "" only, on a terminal where
         \* its fair share is a number (it is 0 / 0 below 4 columns)
         /\ (blank => (nCols >= 1 /\ data = "mixed" /\ ~long /\ t >= 4))
         \* one row more than the default of maxRows: one column of numbers
         /\ (nRows > MaxRows =>
                (nCols = 1 /\ data = "numbers" /\ ~long /\ ~blank /\ title = <<>>
                 /\ totalRows = Unset /\ ~color))
         /\ pt = [PtIdle EXCEPT
                   !.pc = "call",
                   !.keys = IF blank THEN BlankFirst(ColumnNames(nCols, long), <<>>)
                            ELSE ColumnNames(nCols, long),
                   !.rows = IF blank THEN BlankFirstColumn(Rows(data, nRows, nCols))
                            ELSE Rows(data, nRows, nCols),
                   !.options = [maxRows |-> maxRows, title |-> title,
                                totalRows |-> totalRows,
                                fullContent |-> fullContent],
                   !.termWidth = t,
                   !.color = color]

\* The call p after its return: what it wrote and how it ended.
Returned(p) ==
    LET r == printTable(p.keys, p.rows, p.options, p.termWidth, p.color)
    IN  [p EXCEPT !.pc = "done", !.out = r.out, !.threw = r.threw,
                  !.layout = r.layout]

\* lines 122-363: the whole call
PrintTable ==
    /\ pt.pc = "call"
    /\ pt' = Returned(pt)
    /\ UNCHANGED <<tr, wl, hd, cli, sh>>

NextTable == PrintTable

Spec == InitTable /\ [][NextTable]_vars

---------------------------------------------------------------------------
(* main with a query piped on stdin (src/src/index.ts, lines 224-264) *)

\* What a query returns: null, strings and numbers (the connection is
\* opened without the bigint option, and a row has every key).
SqlValues == <<Null, String(ShortText), Number(<<"7">>), String(LongText)>>

SqlCellAt(data, r, i) ==
    IF data = "sql" THEN SqlValues[((2 * r + i) % Len(SqlValues)) + 1]
    ELSE CellAt(data, r, i)

SqlRows(data, nRows, nCols) ==
    Array([r \in 1..nRows |-> Array([i \in 1..nCols |-> SqlCellAt(data, r, i)])])

\* The row counts a query answers with: none, one, a few, and one more
\* than printTable draws by default.
RowCounts == {0, 1, MaxRows, DefaultMaxRows + 1}

ResultTitle == <<"R", "e", "s", "u", "l", "t">>

\* JSON.stringify of a string: quoted, a newline written as \n
Quoted(s) == <<"\"">> \o EscapeNewlines(s) \o <<"\"">>

\* JSON.stringify of a cell value that a query returns
JsonValue(value) ==
    CASE value.t = "number" -> value.v
      [] value.t = "string" -> Quoted(value.v)
      [] value.t = "null" -> <<"n", "u", "l", "l">>

\* JSON.stringify of an array of rows that stands `base` columns deep;
\* indent is 2 (every element and member on a line of its own) or undefined
JsonArray(keys, rows, indent, base) ==
    LET Line(n) == IF indent THEN <<"\n">> \o Repeat(" ", base + n) ELSE <<>>
        Member(row, i) ==
            Line(4) \o Quoted(keys[i]) \o <<":">>
            \o (IF indent THEN <<" ">> ELSE <<>>) \o JsonValue(row[i])
        Object(row) ==
            IF keys = <<>> THEN <<"{", "}">>
            ELSE <<"{">>
                 \o Join(Array([i \in 1..Len(keys) |-> Member(row, i)]), <<",">>)
                 \o Line(2) \o <<"}">>
    IN  IF rows = <<>> THEN <<"[", "]">>
        ELSE <<"[">>
             \o Join(Array([r \in 1..Len(rows) |-> Line(2) \o Object(rows[r])]), <<",">>)
             \o Line(0) \o <<"]">>

\* JSON.stringify(data, null, indent) of an array of rows
JsonStringify(keys, rows, indent) == JsonArray(keys, rows, indent, 0)

\* JSON.stringify(result, null, indent) of the object that holds the rows
\* of every table under the table's name
JsonTables(tables, indent) ==
    LET Line(n) == IF indent THEN <<"\n">> \o Repeat(" ", n) ELSE <<>>
        Member(t) ==
            Line(2) \o Quoted(t.name) \o <<":">>
            \o (IF indent THEN <<" ">> ELSE <<>>)
            \o JsonArray(t.keys, t.rows, indent, 2)
    IN  IF tables = <<>> THEN <<"{", "}">>
        ELSE <<"{">>
             \o Join(Array([k \in 1..Len(tables) |-> Member(tables[k])]), <<",">>)
             \o Line(0) \o <<"}">>

\* Bun.inspect of an array of rows that stands `base` columns deep: every
\* element and member on a line of its own, keys bare, values colored
BunInspectArray(keys, rows, base) ==
    LET Line(n) == <<"\n">> \o Repeat(" ", base + n)
        Value(value) ==
            CASE value.t = "number" -> Inspect(value, TRUE)
              [] value.t = "string" -> <<"ESC[32m">> \o Quoted(value.v) \o <<RESET>>
              [] value.t = "null" -> <<BOLD, "n", "u", "l", "l", RESET>>
        Member(row, i) == Line(4) \o keys[i] \o <<":", " ">> \o Value(row[i])
        Object(row) ==
            IF keys = <<>> THEN <<"{", "}">>
            ELSE <<"{">>
                 \o Join(Array([i \in 1..Len(keys) |-> Member(row, i)]), <<",">>)
                 \o Line(2) \o <<"}">>
    IN  IF rows = <<>> THEN <<"[", "]">>
        ELSE <<"[">>
             \o Join(Array([r \in 1..Len(rows) |-> Line(2) \o Object(rows[r])]), <<",">>)
             \o Line(0) \o <<"]">>

\* Bun.inspect(data, { colors: true, depth: Infinity }) of an array of rows
BunInspect(keys, rows) == BunInspectArray(keys, rows, 0)

\* Bun.inspect(result, { colors: true, depth: Infinity }) of the object that
\* holds the rows of every table under the table's name
BunInspectTables(tables) ==
    LET Line(n) == <<"\n">> \o Repeat(" ", n)
        Member(t) ==
            Line(2) \o t.name \o <<":", " ">> \o BunInspectArray(t.keys, t.rows, 2)
    IN  IF tables = <<>> THEN <<"{", "}">>
        ELSE <<"{">>
             \o Join(Array([k \in 1..Len(tables) |-> Member(tables[k])]), <<",">>)
             \o Line(0) \o <<"}">>

\* lines 224-231: the one line outputJson logs
outputJson(keys, data, color, isTTY) ==
    IF color THEN BunInspect(keys, data)
    ELSE JsonStringify(keys, data, isTTY)

\* line 171: the call displayQueryResult makes
displayQueryResult(keys, rows, termWidth, color) ==
    Returned([PtIdle EXCEPT
                !.pc = "call", !.keys = keys, !.rows = rows,
                !.options = [maxRows |-> Infinity, title |-> ResultTitle,
                             totalRows |-> Unset, fullContent |-> FALSE],
                !.termWidth = termWidth, !.color = color])

\* The message of the RangeError that String.prototype.repeat raises for a
\* negative count (table.ts:351).
RepeatMessage ==
    <<"S", "t", "r", "i", "n", "g", ".", "p", "r", "o", "t", "o", "t", "y",
     "p", "e", ".", "r", "e", "p", "e", "a", "t", " ", "a", "r", "g", "u",
     "m", "e", "n", "t", " ", "m", "u", "s", "t", " ", "b", "e", " ", "g",
     "r", "e", "a", "t", "e", "r", " ", "t", "h", "a", "n", " ", "o", "r",
     " ", "e", "q", "u", "a", "l", " ", "t", "o", " ", "0", " ", "a", "n",
     "d", " ", "n", "o", "t", " ", "b", "e", " ", "I", "n", "f", "i", "n",
     "i", "t", "y">>

\* parseArgs gave json false, "plain" or "color"; the query on stdin will be
\* answered with the rows `answer`
InitPipe ==
    /\ sh = ShIdle
    /\ tr = TrIdle
    /\ wl = WlIdle
    /\ hd = HdIdle
    /\ \E nCols \in 1..MaxColumns, nRows \in RowCounts, data \in {"numbers", "sql"},
          t \in 1..MaxTermWidth, color \in BOOLEAN, isTTY \in BOOLEAN,
          json \in {"false", "plain", "color"} :
         /\ pt = [PtIdle EXCEPT !.termWidth = t, !.color = color]
         /\ cli = [CliIdle EXCEPT
                     !.pc = "stdin", !.json = json, !.isTTY = isTTY,
                     !.keys = ColumnNames(nCols, FALSE),
                     !.answer = SqlRows(data, nRows, nCols)]

\* lines 256-259: the query is read and run
RunQuery ==
    /\ cli.pc = "stdin"
    /\ cli.fault.at # "runQuery"
    /\ cli' = [cli EXCEPT !.pc = "results", !.results = cli.answer]
    /\ UNCHANGED <<tr, wl, hd, pt, sh>>

\* lines 260-261
OutputJson ==
    /\ cli.pc = "results"
    /\ cli.json # "false"
    /\ cli' = [cli EXCEPT
                 !.pc = "done",
                 !.stdout = <<outputJson(cli.keys, cli.results,
                                         cli.json = "color", cli.isTTY)>>]
    /\ UNCHANGED <<tr, wl, hd, pt, sh>>

\* lines 262-263, and 316-332 when printTable raises: the error is reported
\* and the process exits with status 1
DisplayQueryResult ==
    /\ cli.pc = "results"
    /\ cli.json = "false"
    /\ pt' = displayQueryResult(cli.keys, cli.results, pt.termWidth, pt.color)
    /\ cli' = [cli EXCEPT !.pc = IF pt'.threw THEN "failed" ELSE "done",
                          !.raised = IF pt'.threw THEN "printTable" ELSE @,
                          !.message = IF pt'.threw THEN RepeatMessage ELSE @,
                          !.stdout = pt'.out]
    /\ UNCHANGED <<tr, wl, hd, sh>>

NextPipe ==
    \/ RunQuery
    \/ OutputJson
    \/ DisplayQueryResult

SpecPipe == InitPipe /\ [][NextPipe]_vars

---------------------------------------------------------------------------
(* main, the whole run (src/src/index.ts, lines 233-336) *)

DEFAULT_LIMIT == 100

\* sql.options.adapter, and the name getDatabaseName finds for a file
Adapter == <<"s", "q", "l", "i", "t", "e">>
DatabaseFile == <<"d", "a", "t", "a", ".", "d", "b">>

ConnectionClosed ==
    <<"C", "o", "n", "n", "e", "c", "t", "i", "o", "n", " ", "c", "l",
     "o", "s", "e", "d">>
FailedToConnect ==
    <<"f", "a", "i", "l", "e", "d", " ", "t", "o", " ", "c", "o", "n",
     "n", "e", "c", "t">>
ConnectionRefused ==
    <<"E", "C", "O", "N", "N", "R", "E", "F", "U", "S", "E", "D">>
SyntaxError ==
    <<"s", "y", "n", "t", "a", "x", " ", "e", "r", "r", "o", "r">>

\* The messages of the errors the database client raises.
Messages == {ConnectionClosed, FailedToConnect, ConnectionRefused, SyntaxError}

\* The operations of the database client that can raise.
FaultSites == {"createConnection", "runQuery", "list", "count", "data"}
Faults == {NoFault} \cup [at : FaultSites, message : Messages]

\* lines 212-222: the lines showUsageAndExit writes to stderr
UsageLines ==
    << <<"U", "s", "a", "g", "e", ":", " ", "d", "b", "c", "l", "i", " ",
          "<", "d", "a", "t", "a", "b", "a", "s", "e", ">">>,
       <<>>,
       <<"E", "x", "a", "m", "p", "l", "e", "s", ":">>,
       <<" ", " ", "d", "b", "c", "l", "i", " ", ".", "/", "d", "a", "t",
          "a", ".", "d", "b">>,
       <<" ", " ", "d", "b", "c", "l", "i", " ", "p", "o", "s", "t", "g",
          "r", "e", "s", ":", "/", "/", "u", "s", "e", "r", ":", "p", "a", "s",
          "s", "@", "l", "o", "c", "a", "l", "h", "o", "s", "t", "/", "m", "y",
          "d", "b">>,
       <<" ", " ", "d", "b", "c", "l", "i", " ", "m", "y", "s", "q", "l",
          ":", "/", "/", "u", "s", "e", "r", ":", "p", "a", "s", "s", "@", "l",
          "o", "c", "a", "l", "h", "o", "s", "t", "/", "m", "y", "d", "b">>,
       <<>>,
       <<"O", "r", " ", "s", "e", "t", " ", "D", "A", "T", "A", "B", "A",
          "S", "E", "_", "U", "R", "L", " ", "e", "n", "v", "i", "r", "o", "n",
          "m", "e", "n", "t", " ", "v", "a", "r", "i", "a", "b", "l", "e",
          ".">> >>

FailedToConnectLine ==
    <<"F", "a", "i", "l", "e", "d", " ", "t", "o", " ", "c", "o", "n",
     "n", "e", "c", "t", ":">>
FailedToConnectTo ==
    <<"F", "a", "i", "l", "e", "d", " ", "t", "o", " ", "c", "o", "n",
     "n", "e", "c", "t", " ", "t", "o", " ">>
ErrorLine ==
    <<"E", "r", "r", "o", "r", ":">>
ConnectingTo ==
    <<"C", "o", "n", "n", "e", "c", "t", "i", "n", "g", " ", "t", "o",
     " ">>
ConnectedTo ==
    <<"C", "o", "n", "n", "e", "c", "t", "e", "d", " ", "t", "o">>
NoTablesFound ==
    <<"N", "o", " ", "t", "a", "b", "l", "e", "s", " ", "f", "o", "u",
     "n", "d", ".">>
DatabaseWord ==
    <<"d", "a", "t", "a", "b", "a", "s", "e">>

ClearLine == <<"ESC[2K", "\r">>

\* A table of the database: its name, its columns and all of its rows.
Table(name, data, nRows, nCols) ==
    [name |-> name, keys |-> ColumnNames(nCols, FALSE),
     rows |-> SqlRows(data, nRows, nCols)]

ItemsName == <<"i", "t", "e", "m", "s">>

SmallDatabase ==
    <<Table(<<"t">>, "sql", 0, 1), Table(<<"u">>, "numbers", MaxRows, 1)>>

\* The databases browsed: no table; an empty and a small table; a table one
\* row over the limit and one exactly at it; a wide table of 150 rows and a
\* table of one narrow column.
Databases ==
    { <<>>,
      SmallDatabase,
      <<Table(ItemsName, "sql", DEFAULT_LIMIT + 1, 2),
        Table(<<"t">>, "numbers", DEFAULT_LIMIT, 1)>>,
      <<Table(<<"W", "t">>, "sql", DEFAULT_LIMIT + 50, MaxColumns),
        Table(<<"n">>, "numbers", DEFAULT_LIMIT + 1, 1)>> }

\* lines 93-106: SELECT * FROM table, with LIMIT limit when one is given
getTableData(table, limit) ==
    IF limit.is = "unset" THEN table.rows ELSE Slice(table.rows, 0, limit.n)

\* lines 84-91: SELECT COUNT(*)
getTableCount(table) == Len(table.rows)

\* lines 160-168: the blank line and the lines of the table
displayTable(table, rows, totalRows, maxRows, termWidth, color) ==
    Returned([PtIdle EXCEPT
                !.pc = "call", !.keys = table.keys, !.rows = rows,
                !.options = [maxRows |-> maxRows, title |-> table.name,
                             totalRows |-> totalRows, fullContent |-> FALSE],
                !.termWidth = termWidth, !.color = color])

\* lines 224-231, for the object of all tables
outputJsonTables(tables, color, isTTY) ==
    IF color THEN BunInspectTables(tables) ELSE JsonTables(tables, isTTY)

\* String.prototype.includes
Includes(s, part) ==
    \E j \in 0..(Len(s) - Len(part)) : Slice(s, j, j + Len(part)) = part

\* lines 321-325: message.includes(...) of the three marks of a connection error
IsConnectionMessage(message) ==
    \/ Includes(message, <<"C", "o", "n", "n", "e", "c", "t", "i", "o", "n">>)
    \/ Includes(message, <<"c", "o", "n", "n", "e", "c", "t">>)
    \/ Includes(message, ConnectionRefused)

\* lines 321-331: the two lines written to stderr
Diagnostic(message) ==
    << IF IsConnectionMessage(message)
       THEN FailedToConnectTo \o Adapter \o <<":">>
       ELSE ErrorLine,
       message >>

\* The arguments, the environment, the terminal and the database of a run.
InitMain ==
    /\ sh = ShIdle
    /\ tr = TrIdle
    /\ wl = WlIdle
    /\ hd = HdIdle
    /\ \E input \in BOOLEAN, env \in BOOLEAN, full \in BOOLEAN, piped \in BOOLEAN,
          json \in {"false", "plain", "color"}, isTTY \in BOOLEAN,
          t \in {1, MaxTermWidth - 2 * MaxColumns, MaxTermWidth},
          fault \in Faults, tables \in Databases :
         \* one of the database argument and DATABASE_URL, or neither
         /\ ~(input /\ env)
         /\ (~input /\ ~env) =>
                (~full /\ ~piped /\ json = "false" /\ fault = NoFault
                 /\ tables = <<>> /\ t = MaxTermWidth)
         \* the client raises over a small database on a wide terminal
         /\ fault # NoFault => (tables \in {<<>>, SmallDatabase} /\ t = MaxTermWidth)
         /\ pt = [PtIdle EXCEPT !.termWidth = t, !.color = isTTY]
         /\ cli = [CliIdle EXCEPT
                     !.pc = "start", !.input = input, !.env = env,
                     !.full = full, !.json = json, !.isTTY = isTTY,
                     !.piped = piped, !.fault = fault, !.tables = tables,
                     !.keys = IF piped /\ tables # <<>> THEN tables[1].keys ELSE <<>>,
                     !.answer = IF piped /\ tables # <<>> THEN tables[1].rows ELSE <<>>]

\* lines 234-238
Start ==
    /\ cli.pc = "start"
    /\ cli' = IF ~cli.input /\ ~cli.env
              THEN [cli EXCEPT !.pc = "exited", !.stderr = UsageLines, !.exitCode = 1]
              ELSE [cli EXCEPT !.pc = "connect"]
    /\ UNCHANGED <<tr, wl, hd, pt, sh>>

\* lines 240-247
CreateConnection ==
    /\ cli.pc = "connect"
    /\ cli' = IF cli.fault.at = "createConnection"
              THEN [cli EXCEPT !.pc = "exited", !.raised = "createConnection",
                               !.stderr = <<FailedToConnectLine, cli.fault.message>>,
                               !.exitCode = 1]
              ELSE [cli EXCEPT !.pc = "try"]
    /\ UNCHANGED <<tr, wl, hd, pt, sh>>

\* lines 256-258: readStdin returns the query, or null on a terminal
ReadStdin ==
    /\ cli.pc = "try"
    /\ cli' = [cli EXCEPT !.pc = IF cli.piped THEN "stdin" ELSE "browse"]
    /\ UNCHANGED <<tr, wl, hd, pt, sh>>

\* line 259: runQuery raises
RunQueryFails ==
    /\ cli.pc = "stdin"
    /\ cli.fault.at = "runQuery"
    /\ cli' = [cli EXCEPT !.pc = "failed", !.raised = "runQuery",
                          !.message = cli.fault.message]
    /\ UNCHANGED <<tr, wl, hd, pt, sh>>

\* lines 266-299: the database is named and its tables are listed
ListTables ==
    /\ cli.pc = "browse"
    /\ LET color == pt.color
           connecting ==
               IF cli.isTTY /\ cli.json = "false"
               THEN <<Dim(color) \o ConnectingTo \o Adapter \o <<".", ".", ".">>
                      \o Reset(color)>>
               ELSE <<>>
           dbName == IF cli.input THEN DatabaseFile ELSE <<>>
           dbDisplay ==
               IF dbName # <<>> THEN Bold(color) \o dbName \o Reset(color)
               ELSE Bold(color) \o Adapter \o Reset(color) \o <<" ">>
                    \o Dim(color) \o DatabaseWord \o Reset(color)
           connected ==
               IF cli.isTTY
               THEN ClearLine \o Dim(color) \o ConnectedTo \o Reset(color)
                    \o <<" ">> \o dbDisplay \o <<"\n">>
               ELSE ConnectedTo \o <<" ">>
                    \o (IF dbName # <<>> THEN dbName ELSE Adapter)
       IN  cli' =
             IF cli.fault.at = "list"
             THEN [cli EXCEPT !.pc = "failed", !.raised = "list",
                              !.message = cli.fault.message,
                              !.stdout = connecting]
             ELSE IF cli.json # "false"
             THEN [cli EXCEPT !.pc = "json"]
             ELSE IF cli.tables = <<>>
             THEN [cli EXCEPT !.pc = "done",
                              !.stdout = connecting \o <<connected>>
                                         \o <<Dim(color) \o NoTablesFound \o Reset(color)>>]
             ELSE [cli EXCEPT !.pc = "tables", !.next = 1,
                              !.stdout = connecting \o <<connected>>]
    /\ UNCHANGED <<tr, wl, hd, pt, sh>>

\* lines 277-285: the rows of every table, all of them with --full
BrowseJson ==
    /\ cli.pc = "json"
    /\ LET limit == IF cli.full THEN Unset ELSE Int32(DEFAULT_LIMIT)
           result == Array([k \in 1..Len(cli.tables) |->
                        [name |-> cli.tables[k].name, keys |-> cli.tables[k].keys,
                         rows |-> getTableData(cli.tables[k], limit)]])
       IN  cli' =
             IF cli.fault.at = "data" /\ cli.tables # <<>>
             THEN [cli EXCEPT !.pc = "failed", !.raised = "data",
                              !.message = cli.fault.message]
             ELSE [cli EXCEPT !.pc = "done",
                              !.stdout = <<outputJsonTables(result, cli.json = "color",
                                                            cli.isTTY)>>]
    /\ UNCHANGED <<tr, wl, hd, pt, sh>>

\* the operation that raises while the next table is fetched, if one does
FetchFault ==
    IF ~cli.full /\ cli.fault.at = "count" THEN "count"
    ELSE IF cli.fault.at = "data" THEN "data"
    ELSE "none"

\* lines 301-312, a fetch raises
DisplayTableFails ==
    /\ cli.pc = "tables"
    /\ FetchFault # "none"
    /\ cli' = [cli EXCEPT !.pc = "failed", !.raised = FetchFault,
                          !.message = cli.fault.message]
    /\ UNCHANGED <<tr, wl, hd, pt, sh>>

\* every table fetched and drawn with the limit, --full or not
NextTableShownLimited ==
    LET table == cli.tables[cli.next]
    IN  displayTable(table, getTableData(table, Int32(DEFAULT_LIMIT)),
                     Int32(getTableCount(table)), Int32(DEFAULT_LIMIT),
                     pt.termWidth, pt.color)

\* The call displayTable makes for the next table.
NextTableShown ==
    LET table == cli.tables[cli.next]
    IN  IF cli.full
        THEN displayTable(table, getTableData(table, Unset), Unset, Infinity,
                          pt.termWidth, pt.color)
        ELSE displayTable(table, getTableData(table, Int32(DEFAULT_LIMIT)),
                          Int32(getTableCount(table)), Int32(DEFAULT_LIMIT),
                          pt.termWidth, pt.color)

\* lines 301-312: one table is fetched and drawn
DisplayTable ==
    /\ cli.pc = "tables"
    /\ FetchFault = "none"
    /\ pt' = NextTableShown
    /\ cli' = [cli EXCEPT
                 !.pc = IF pt'.threw THEN "failed"
                        ELSE IF cli.next = Len(cli.tables) THEN "done" ELSE "tables",
                 !.raised = IF pt'.threw THEN "printTable" ELSE @,
                 !.message = IF pt'.threw THEN RepeatMessage ELSE @,
                 !.next = cli.next + 1,
                 !.stdout = cli.stdout \o <<<<>>>> \o pt'.out]
    /\ UNCHANGED <<tr, wl, hd, sh>>

\* lines 316-332
Catch ==
    /\ cli.pc = "failed"
    /\ cli' = [cli EXCEPT
                 !.pc = "exited",
                 !.stdout = IF cli.isTTY /\ cli.json = "false"
                            THEN Append(cli.stdout, ClearLine) ELSE cli.stdout,
                 !.stderr = Diagnostic(cli.message),
                 !.exitCode = 1]
    /\ UNCHANGED <<tr, wl, hd, pt, sh>>

\* lines 333-335, and the end of the process
Close ==
    /\ cli.pc = "done"
    /\ cli' = [cli EXCEPT !.pc = "exited", !.exitCode = 0]
    /\ UNCHANGED <<tr, wl, hd, pt, sh>>

NextMain ==
    \/ Start
    \/ CreateConnection
    \/ ReadStdin
    \/ RunQuery
    \/ RunQueryFails
    \/ OutputJson
    \/ DisplayQueryResult
    \/ ListTables
    \/ BrowseJson
    \/ DisplayTableFails
    \/ DisplayTable
    \/ Catch
    \/ Close

SpecMain == InitMain /\ [][NextMain]_vars

---------------------------------------------------------------------------
(* printTable's width compression, one iteration of the shrink loop per
   step (src/src/table.ts, lines 206-240) *)

\* A column name of display width h.
NameOfWidth(h) == Repeat("a", h)

\* The header widths, and what the widest cell of a column adds to them.
ShrinkHeaderWidths == {2, 6}
ShrinkExtraWidths == {0, 2, 7}

\* lines 190-212: the visible columns after hiding, their natural widths
\* and the width available for them
InitShrink ==
    /\ tr = TrIdle
    /\ wl = WlIdle
    /\ hd = HdIdle
    /\ pt = PtIdle
    /\ cli = CliIdle
    /\ \E n \in 1..MaxColumns, t \in 1..MaxTermWidth :
         \E hs \in [1..n -> ShrinkHeaderWidths], extra \in [1..n -> ShrinkExtraWidths] :
           LET hidden == HideColumns(Array([i \in 1..n |-> NameOfWidth(hs[i])]), t)
               ws == Array([i \in 1..Len(hidden.columns) |-> hs[i] + extra[i]])
           IN  sh = [ShIdle EXCEPT
                       !.pc = "call", !.columns = hidden.columns,
                       !.naturalWidths = ws,
                       !.availableForColumns = hidden.availableForColumns,
                       !.ws = ws, !.totalWidth = Sum(ws)]

\* lines 214-228: the fair shares, or nothing when the natural widths fit
ShrinkEnter ==
    /\ sh.pc = "call"
    /\ sh' = IF sh.totalWidth > sh.availableForColumns
             THEN LET fair == FairWidths(sh.ws, sh.columns, sh.availableForColumns)
                  IN  [sh EXCEPT !.pc = "loop", !.ws = fair, !.totalWidth = Sum(fair)]
             ELSE [sh EXCEPT !.pc = "done"]
    /\ UNCHANGED <<tr, wl, hd, pt, cli>>

\* lines 229-239: one iteration
ShrinkStep ==
    /\ sh.pc = "loop"
    /\ ShrinkCondition(sh.ws, sh.totalWidth, sh.availableForColumns)
    /\ sh' = [sh EXCEPT !.ws = ShrinkIterate(sh.ws),
                        !.totalWidth = sh.totalWidth - 1,
                        !.before = sh.ws]
    /\ UNCHANGED <<tr, wl, hd, pt, cli>>

\* the loop condition fails
ShrinkExit ==
    /\ sh.pc = "loop"
    /\ ~ShrinkCondition(sh.ws, sh.totalWidth, sh.availableForColumns)
    /\ sh' = [sh EXCEPT !.pc = "done"]
    /\ UNCHANGED <<tr, wl, hd, pt, cli>>

NextShrink ==
    \/ ShrinkEnter
    \/ ShrinkStep
    \/ ShrinkExit

SpecShrink == InitShrink /\ [][NextShrink]_vars

\* printTable is synchronous: the loop runs until its condition fails.
FairSpecShrink == SpecShrink /\ WF_vars(NextShrink)

---------------------------------------------------------------------------
(* Claims about truncate and wrapLines *)

Units(s) == {s[i] : i \in 1..Len(s)}

\* C4 as stated: for every text and every maxWidth, truncate(text, maxWidth)
\* returns a string whose display width is <= maxWidth.
C4_TruncateWithinAnyWidth ==
    tr.pc = "done" => StringWidth(tr.result) <= tr.maxWidth

\* C4 as amended: for every text and every maxWidth >= 1, truncate(text,
\* maxWidth) returns a string whose display width is <= maxWidth (for
\* maxWidth <= 0 a text that does not fit comes back as the bare ellipsis,
\* of display width 1).
C4_TruncateWithinPositiveWidth ==
    (tr.pc = "done" /\ tr.maxWidth >= 1) => StringWidth(tr.result) <= tr.maxWidth

\* A text with a double-width glyph was cut: a proper, non-empty prefix and
\* the ellipsis came back.
C4_Witness ==
    /\ tr.pc = "done"
    /\ tr.pass = 1
    /\ tr.maxWidth >= 1
    /\ "W" \in Units(tr.str)
    /\ StringWidth(tr.str) > tr.maxWidth
    /\ StringWidth(Slice(tr.str, 0, tr.low)) >= 1
    /\ tr.result = TruncateResult(tr.str, tr.low, tr.color)

\* C5: truncate is idempotent: truncate(truncate(s, w), w) = truncate(s, w),
\* with color output enabled and disabled.
C5_TruncateIdempotent ==
    (tr.pc = "done" /\ tr.pass = 2) => tr.result = tr.first

\* The second application has returned, and the first one had cut its text
\* (with color enabled, so that the result carries the reset sequence).
C5_Witness ==
    /\ tr.pc = "done"
    /\ tr.pass = 2
    /\ tr.color
    /\ ELLIPSIS \in Units(tr.first)
    /\ Len(tr.first) >= 3

\* C6: each line returned by wrapLines(text, maxWidth) has display width
\* <= maxWidth, also when a token of double-width glyphs wider than maxWidth
\* is hard-split.  Stated for maxWidth >= 2, where every single glyph fits
\* on a line (for smaller widths the code breaks the claim as well).
C6_WrapLinesWithinWidth ==
    (wl.pc = "done" /\ wl.maxWidth >= 2) =>
        \A k \in 1..Len(wl.lines) : StringWidth(wl.lines[k]) <= wl.maxWidth

\* The progress measure of wrapLines: what is left of the tokens, of their
\* units and of the line being built.
RECURSIVE TotalLen(_)
TotalLen(ss) == IF ss = <<>> THEN 0 ELSE Len(Head(ss)) + TotalLen(Tail(ss))

WrapMeasure(w) ==
    IF w.pc = "for"
    THEN 4 * (Len(w.tokens) - w.i + 1) + 2 * TotalLen(SliceFrom(w.tokens, w.i - 1))
         + (IF w.current = <<>> THEN 0 ELSE 1) + 1
    ELSE 4 * (Len(w.tokens) - w.i + 1)
         + 2 * (Len(w.fragment) + TotalLen(SliceFrom(w.tokens, w.i)))
         + (IF w.current = <<>> THEN 0 ELSE 1)

InLoop(w) == w.pc \in {"for", "while"}

TextProgress ==
    /\ (tr.pc = "search" /\ tr'.pc = "search") =>
          /\ tr'.high - tr'.low < tr.high - tr.low
          /\ tr'.high - tr'.low >= 0
    /\ (InLoop(wl) /\ InLoop(wl')) =>
          /\ WrapMeasure(wl') < WrapMeasure(wl)
          /\ WrapMeasure(wl') >= 0

TextReturned == (tr.pc = "done" /\ tr.pass = 2) \/ wl.pc = "done"

\* C7: truncate and wrapLines terminate and return a value for every text
\* and every maxWidth, 0 and negative included: every iteration of the
\* binary search and of the token and fragment loops makes progress, and
\* every call returns.
C7_TextRoutinesTerminate ==
    [][TextProgress]_vars /\ <>[]TextReturned

\* wrapLines has returned for a negative width after hard-splitting.
C7_Witness ==
    /\ wl.pc = "done"
    /\ wl.maxWidth < 0
    /\ Len(wl.lines) >= 3

\* The step machine and the operators compute the same results.
TextStepsAgree ==
    /\ tr.pc = "done" => tr.result = truncate(tr.str, tr.maxWidth, tr.color)
    /\ wl.pc = "done" => wl.lines = wrapLines(wl.str, wl.maxWidth)

---------------------------------------------------------------------------
(* Claims about column hiding *)

\* C8: column hiding is monotone in the terminal width: for the same rows,
\* w1 <= w2 implies the visible columns at w1 are at most those at w2.
C8_HidingMonotone ==
    (hd.pc = "done" /\ hd.prevWidth > 0) =>
        /\ hd.prevWidth <= hd.termWidth => hd.prevVisible <= Len(hd.columns)
        /\ hd.termWidth <= hd.prevWidth => Len(hd.columns) <= hd.prevVisible

\* A wider terminal showed more columns than the narrower one before it,
\* and both hid some.
C8_Witness ==
    /\ hd.pc = "done"
    /\ hd.prevWidth > 0
    /\ hd.prevWidth < hd.termWidth
    /\ 1 < hd.prevVisible
    /\ hd.prevVisible < Len(hd.columns)
    /\ hd.hiddenCols > 0

HideProgress ==
    (hd.pc = "loop" /\ hd'.pc = "loop") =>
        /\ Len(hd'.columns) < Len(hd.columns)
        /\ Len(hd'.columns) >= 0

\* C9: the hiding loop terminates for every column count and terminal
\* width, and when the first row has at least one key, at least one column,
\* the first, is visible afterwards.
C9_HidingTerminatesKeepingFirst ==
    /\ [][HideProgress]_vars
    /\ (hd.pc = "loop") ~> (hd.pc = "done")
    /\ []((hd.pc = "done" /\ Len(hd.allColumns) >= 1) =>
             (Len(hd.columns) >= 1 /\ hd.columns[1] = hd.allColumns[1]))

\* On the narrowest terminal every column but the first was hidden.
C9_Witness ==
    /\ hd.pc = "done"
    /\ hd.termWidth = 1
    /\ Len(hd.allColumns) = MaxHideColumns
    /\ hd.columns = <<hd.allColumns[1]>>
    /\ hd.hiddenCols = MaxHideColumns - 1

\* The largest k in 1..n with 3*k <= t - (4 + 3*(k-1)), or 1 if there is none.
ExpectedVisible(n, t) ==
    LET fit == {k \in 1..n : 3 * k <= t - (4 + 3 * (k - 1))}
    IN  IF fit = {} THEN 1 ELSE CHOOSE k \in fit : \A j \in fit : j <= k

\* C10: for N >= 1 columns and terminal width T the visible columns are
\* the first k keys of the first row in order, k the largest in 1..N with
\* 3*k <= T - (4 + 3*(k-1)) or 1 if there is none, and hiddenCols = N - k,
\* whatever the widths of the column names.
C10_VisibleColumnCount ==
    (hd.pc = "done" /\ Len(hd.allColumns) >= 1) =>
        LET k == ExpectedVisible(Len(hd.allColumns), hd.termWidth)
        IN  /\ hd.columns = SubSeq(hd.allColumns, 1, k)
            /\ hd.hiddenCols = Len(hd.allColumns) - k

\* Terminal width 30 and 8 columns with wide names: 4 visible, 4 hidden.
C10_Witness ==
    /\ hd.pc = "done"
    /\ hd.termWidth = 30
    /\ Len(hd.allColumns) = 8
    /\ StringWidth(hd.allColumns[1]) > minColWidth
    /\ Len(hd.columns) = 4
    /\ hd.hiddenCols = 4

\* The step machine and the operator compute the same result.
HideStepsAgree ==
    hd.pc = "done" =>
        LET h == HideColumns(hd.allColumns, hd.termWidth)
        IN  h.columns = hd.columns /\ h.hiddenCols = hd.hiddenCols

---------------------------------------------------------------------------
(* Claims about printTable *)

\* The display widths of the lines a call wrote.
LineWidths(out) == {StringWidth(out[k]) : k \in 1..Len(out)}

\* The call returned normally after rendering a table (rows were given).
Rendered == pt.pc = "done" /\ Len(pt.rows) > 0 /\ ~pt.threw

\* C1: for every call of printTable with a non-empty row set, all lines the
\* call emits (top border, header, separator, data lines, trailer, bottom
\* border) have the same display width.
C1_AllLinesSameWidth ==
    Rendered => Cardinality(LineWidths(pt.out)) <= 1

\* C2: for every call of printTable with a non-empty row set, no emitted
\* line is wider than the terminal width.
C2_NoLineWiderThanTerminal ==
    Rendered => \A w \in LineWidths(pt.out) : w <= pt.termWidth

\* C3: printTable never throws: for every row set, every maxRows, totalRows,
\* title and fullContent, and every terminal width >= 1, the call runs to
\* completion and emits its bottom border (or the "(empty)" output).
C3_PrintTableNeverThrows ==
    (pt.pc = "done" /\ pt.termWidth >= 1) =>
        /\ ~pt.threw
        /\ pt.out # <<>>
        /\ \/ Len(pt.rows) = 0
           \/ BOX.bottomLeft \in Units(pt.out[Len(pt.out)])

\* A line as it shows: without its escape sequences.
Plain(line) == SelectSeq(line, LAMBDA u : u \notin Ansi)

\* The pieces of s between the units sep.
RECURSIVE Segments(_, _, _)
Segments(s, sep, piece) ==
    IF s = <<>> THEN <<piece>>
    ELSE IF Head(s) = sep THEN <<piece>> \o Segments(Tail(s), sep, <<>>)
    ELSE Segments(Tail(s), sep, Append(piece, Head(s)))

\* The cells of a header or data line as they show: what stands between
\* two vertical bars, without the one space on either side.
Cells(line) ==
    LET pieces == Segments(Plain(line), BOX.vertical, <<>>)
    IN  [i \in 1..(Len(pieces) - 2) |->
            Slice(pieces[i + 1], 1, Len(pieces[i + 1]) - 1)]

Blank(cell) == \A j \in 1..Len(cell) : cell[j] = " "
\* the text ends at the right edge of the cell, the padding is on the left
RightAligned(cell) == Blank(cell) \/ cell[Len(cell)] # " "
\* the text starts at the left edge of the cell, the padding is on the right
LeftAligned(cell) == Blank(cell) \/ cell[1] # " "

\* The lines of a rendered table that hold the header (k = 2) or cells.
CellLineIndexes ==
    {2} \cup {k \in 4..(Len(pt.out) - (IF pt.layout.infoText # <<>> THEN 2 ELSE 1)) :
                Head(Plain(pt.out[k])) = BOX.vertical}

NumericTypes == {"null", "undefined", "number", "bigint"}

RenderedEmpty == pt.pc = "done" /\ Len(pt.rows) = 0 /\ ~pt.threw

\* line is: left, then the units of middle, then n >= 0 times fill, then right
Framed(line, left, middle, fill, right) ==
    /\ Len(line) >= Len(left) + Len(middle) + 1
    /\ Slice(line, 0, Len(left)) = left
    /\ Slice(line, Len(left), Len(left) + Len(middle)) = middle
    /\ \A j \in (Len(left) + Len(middle) + 1)..(Len(line) - 1) : line[j] = fill
    /\ line[Len(line)] = right

\* C12: zero rows give exactly three lines when a title is present (the top
\* border carrying the title, a line holding "(empty)" and nothing else
\* between its bars, the bottom border) and exactly the one line "(empty)"
\* without a title; the widths follow from the title alone, not from the
\* terminal width.
C12_EmptyTableLines ==
    (pt.pc = "done" /\ Len(pt.rows) = 0) =>
        /\ ~pt.threw
        /\ IF pt.options.title = <<>>
           THEN pt.out = <<EmptyText>>
           ELSE LET title == pt.options.title
                    boxWidth == Max(StringWidth(EmptyText), StringWidth(title)) + 4
                IN  /\ Len(pt.out) = 3
                    /\ Framed(Plain(pt.out[1]), <<BOX.topLeft, BOX.horizontal>>,
                              <<" ">> \o title \o <<" ">>, BOX.horizontal, BOX.topRight)
                    /\ StringWidth(pt.out[1]) = Max(boxWidth, StringWidth(title) + 5)
                    /\ Framed(Plain(pt.out[2]), <<BOX.vertical, " ">>, EmptyText,
                              " ", BOX.vertical)
                    /\ Framed(Plain(pt.out[3]), <<BOX.bottomLeft>>, <<>>,
                              BOX.horizontal, BOX.bottomRight)
                    /\ StringWidth(pt.out[2]) = boxWidth
                    /\ StringWidth(pt.out[3]) = boxWidth

\* The box around "(empty)" under a title, with colors on.
C12_Witness ==
    /\ RenderedEmpty
    /\ pt.options.title # <<>>
    /\ pt.color
    /\ Len(pt.out) = 3
    /\ pt.termWidth = 1

\* C13: for zero rows and any non-empty title, shorter or longer than
\* "(empty)", the three lines of the box have equal display width.
C13_EmptyBoxRectangular ==
    (RenderedEmpty /\ pt.options.title # <<>>) =>
        Cardinality(LineWidths(pt.out)) = 1

\* s holds the units of part, in a row
Contains(s, part) ==
    \E j \in 0..(Len(s) - Len(part)) : Slice(s, j, j + Len(part)) = part

\* A trailer line has one cell between its bars, starting with the dots of
\* the notice or, cut to nothing, with the ellipsis; no header or data cell
\* starts with either.
IsTrailer(line) ==
    /\ Head(Plain(line)) = BOX.vertical
    /\ Len(Cells(line)) = 1
    /\ Cells(line)[1] # <<>>
    /\ Cells(line)[1][1] \in {".", ELLIPSIS}

\* The lines between the header separator and the bottom border.
BodyIndexes == 4..(Len(pt.out) - 1)
TrailerIndexes == {k \in BodyIndexes : IsTrailer(pt.out[k])}

\* The number of rows drawn, counted in the output: the row lines, or in
\* full-content mode the separators between rows, plus one.
DrawnRows ==
    IF pt.options.fullContent
    THEN 1 + Cardinality({k \in BodyIndexes : Head(Plain(pt.out[k])) = BOX.headerLeft})
    ELSE Cardinality({k \in BodyIndexes \ TrailerIndexes :
                        Head(Plain(pt.out[k])) = BOX.vertical})

\* The true total: totalRows if supplied, otherwise the rows supplied.
ActualTotal ==
    IF pt.options.totalRows.is = "unset" THEN Len(pt.rows) ELSE pt.options.totalRows.n

\* K of "K more rows"
MoreRows == ActualTotal - DrawnRows

\* "... K more row", with an s when K > 1
MoreRowsText(k) ==
    <<".", ".", ".", " ">> \o NumberToString(k) \o MoreRow
    \o (IF k > 1 THEN <<"s">> ELSE <<>>)

\* The units of a cell before its ellipsis, all of them if it has none.
BeforeEllipsis(cell) ==
    IF ELLIPSIS \in Units(cell)
    THEN Slice(cell, 0, (CHOOSE j \in 1..Len(cell) :
                            cell[j] = ELLIPSIS /\ \A i \in 1..(j - 1) : cell[i] # ELLIPSIS) - 1)
    ELSE cell

\* C14 as stated: whenever K = (totalRows if supplied, otherwise the rows
\* supplied) - (rows drawn) is positive, the trailer reports "K more rows".
C14_TrailerReportsMoreRows ==
    (Rendered /\ MoreRows > 0) =>
        /\ TrailerIndexes = {Len(pt.out) - 1}
        /\ Contains(Plain(pt.out[Len(pt.out) - 1]), MoreRowsText(MoreRows))

\* C14, amended: whenever K is positive the trailer holds the text
\* "... K more row(s)" cut to the inner width: the cell starts with as much
\* of the text as it shows, and shows all of it unless it ends in an ellipsis.
C14_TrailerReportsMoreRowsCut ==
    (Rendered /\ MoreRows > 0) =>
        /\ TrailerIndexes = {Len(pt.out) - 1}
        /\ LET cell == Cells(pt.out[Len(pt.out) - 1])[1]
               shown == BeforeEllipsis(cell)
               text == MoreRowsText(MoreRows)
           IN  /\ \A j \in 1..Min(Len(shown), Len(text)) : shown[j] = text[j]
               /\ ELLIPSIS \notin Units(cell) => Len(shown) >= Len(text)
               /\ ELLIPSIS \in Units(cell) =>
                      StringWidth(shown) + 1 = Max(1, pt.layout.innerWidth)

\* 1 row drawn of 1000: "... 999 more rows" in full.
C14_Witness ==
    /\ Rendered
    /\ MoreRows = 999
    /\ Contains(Plain(pt.out[Len(pt.out) - 1]), MoreRowsText(999))

\* The number of columns hidden, counted in the header line.
HiddenColumns ==
    IF pt.keys = <<>> THEN 0 ELSE Len(pt.keys) - Len(Cells(pt.out[2]))

\* C15: for a non-empty row set a trailer line stands between the last data
\* line and the bottom border iff fewer rows were drawn than the true total
\* or at least one column was hidden; otherwise the bottom border follows
\* the last data line directly.
C15_TrailerIffRowsOrColumnsLeftOut ==
    Rendered =>
        /\ Head(Plain(pt.out[Len(pt.out)])) = BOX.bottomLeft
        /\ \A k \in BodyIndexes :
               Head(Plain(pt.out[k])) \in {BOX.vertical, BOX.headerLeft}
        /\ IF MoreRows > 0 \/ HiddenColumns > 0
           THEN TrailerIndexes = {Len(pt.out) - 1}
           ELSE TrailerIndexes = {}

\* A trailer for hidden columns alone, all rows being drawn.
C15_Witness ==
    /\ Rendered
    /\ MoreRows <= 0
    /\ HiddenColumns > 0
    /\ TrailerIndexes = {Len(pt.out) - 1}
    /\ pt.options.totalRows.is = "number"

\* The width of every visible column, measured in the header line.
DrawnWidths ==
    IF pt.keys = <<>> THEN <<>>
    ELSE [i \in 1..Len(Cells(pt.out[2])) |-> StringWidth(Cells(pt.out[2])[i])]

\* The column widths of the same rows on the same terminal without a title.
UntitledWidths ==
    Layout(pt.keys, pt.rows, [pt.options EXCEPT !.title = <<>>],
           pt.termWidth, pt.color).visibleColWidths

\* title width + 4, and the content width of the columns ws
TitleWidth == StringWidth(pt.options.title) + 4
ContentWidth(ws) == Sum(ws) + (Len(ws) - 1) * 3

\* the title is present and does not fit the content width of the columns ws
TitleExpands(ws) ==
    /\ pt.options.title # <<>>
    /\ TitleWidth > ContentWidth(ws)

\* every visible column but the last is as wide as in ws
OthersUnchanged(ws) ==
    /\ Len(DrawnWidths) = Len(ws)
    /\ \A i \in 1..(Len(ws) - 1) : DrawnWidths[i] = ws[i]

\* how much wider than in ws the last visible column is
LastColumnGain(ws) == DrawnWidths[Len(ws)] - ws[Len(ws)]

C17_TitleNeverTruncated ==
    (pt.pc = "done" /\ pt.options.title # <<>> /\ pt.out # <<>>) =>
        /\ Head(Plain(pt.out[1])) = BOX.topLeft
        /\ Contains(Plain(pt.out[1]), <<" ">> \o pt.options.title \o <<" ">>)

\* A table with rows under a title wider than the terminal.
C17_Witness ==
    /\ Rendered
    /\ pt.options.title # <<>>
    /\ StringWidth(pt.options.title) > pt.termWidth
    /\ Len(pt.keys) >= 2
    /\ Contains(Plain(pt.out[1]), pt.options.title)

\* C18: every visible column's final width, the one the borders are drawn
\* with, is positive: no row set, header set or terminal width makes it zero
\* or negative.
C18_ColumnWidthsPositive ==
    Rendered =>
        \A i \in 1..Len(pt.layout.visibleColWidths) :
            /\ pt.layout.visibleColWidths[i] >= 1
            /\ DrawnWidths[i] >= 1

\* C19: when the sum of the natural widths exceeds the available width,
\* compression leaves every visible column at least max(3, display width of
\* its header) wide.
C19_CompressionKeepsHeaderFloor ==
    (Rendered /\ Sum(pt.layout.naturalWidths) > pt.layout.availableForColumns) =>
        \A i \in 1..Len(pt.layout.columns) :
            /\ pt.layout.compressedWidths[i] >= Max(minColWidth, StringWidth(pt.keys[i]))
            /\ DrawnWidths[i] >= Max(minColWidth, StringWidth(pt.keys[i]))

---------------------------------------------------------------------------
(* Claims about a piped query *)

\* The number of rows in the JSON text: its opening braces.
SerializedRows(text) == Cardinality({j \in 1..Len(text) : text[j] = "{"})

MoreRowsNotice == <<" ", "m", "o", "r", "e", " ", "r", "o", "w">>

\* C20: a piped query always shows all rows: every row the query returns is
\* drawn (table mode) or serialized (JSON mode), whatever the row count, and
\* no "more rows" trailer is written.
C20_PipedQueryShowsAllRows ==
    cli.pc \in {"done", "failed"} =>
        /\ \A k \in 1..Len(cli.stdout) : ~Contains(Plain(cli.stdout[k]), MoreRowsNotice)
        /\ IF cli.json # "false"
           THEN Len(cli.stdout) = 1 /\ SerializedRows(cli.stdout[1]) = Len(cli.results)
           ELSE /\ pt.options.maxRows = Infinity
                /\ pt.rows = cli.results
                /\ \/ cli.results = <<>> /\ Len(pt.out) = 3
                   \/ cli.results # <<>> /\ DrawnRows = Len(cli.results)

\* One row more than printTable draws by default, all drawn.
C20_Witness ==
    /\ cli.pc = "done"
    /\ cli.json = "false"
    /\ Len(cli.results) = DefaultMaxRows + 1
    /\ DrawnRows = DefaultMaxRows + 1

---------------------------------------------------------------------------
(* Claims about the whole run *)

\* A table of the database has just been drawn while browsing.
TableShown == cli.next > 1 /\ pt.pc = "done" /\ cli.raised \in {"none", "printTable"}
\* The number of rows that table has in the database.
ShownTableRows == Len(cli.tables[cli.next - 1].rows)
NoMoreRowsNotice ==
    \A k \in 1..Len(pt.out) : ~Contains(Plain(pt.out[k]), MoreRowsNotice)
\* The last line written before the bottom border (which a call that raised
\* did not write).
LastBodyLine == pt.out[IF pt.threw THEN Len(pt.out) ELSE Len(pt.out) - 1]

\* C21 as stated: browsing without --full draws at most 100 rows of each
\* table and, for a table of n > 100 rows, the trailer reports n - 100 more
\* rows; with --full every row is drawn and there is no "more rows" trailer.
C21_BrowseLimit ==
    TableShown =>
        IF cli.full
        THEN DrawnRows = ShownTableRows /\ NoMoreRowsNotice
        ELSE /\ DrawnRows = Min(ShownTableRows, DEFAULT_LIMIT)
             /\ ShownTableRows > DEFAULT_LIMIT =>
                    /\ IsTrailer(LastBodyLine)
                    /\ Contains(Plain(LastBodyLine),
                                MoreRowsText(ShownTableRows - DEFAULT_LIMIT))

\* C21, amended: browsing without --full draws min(n, 100) rows of each table
\* and, for n > 100, writes a trailer that holds "... n - 100 more rows" cut
\* to the inner width of the table (all of it, unless the cell ends in an
\* ellipsis); with --full every row is drawn and there is no trailer about
\* rows.
C21_BrowseLimitTrailerCut ==
    TableShown =>
        IF cli.full
        THEN DrawnRows = ShownTableRows /\ NoMoreRowsNotice
        ELSE /\ DrawnRows = Min(ShownTableRows, DEFAULT_LIMIT)
             /\ ShownTableRows <= DEFAULT_LIMIT => NoMoreRowsNotice
             /\ ShownTableRows > DEFAULT_LIMIT =>
                    /\ IsTrailer(LastBodyLine)
                    /\ LET cell == Cells(LastBodyLine)[1]
                           shown == BeforeEllipsis(cell)
                           text == MoreRowsText(ShownTableRows - DEFAULT_LIMIT)
                       IN  /\ \A j \in 1..Min(Len(shown), Len(text)) :
                                  shown[j] = text[j]
                           /\ ELLIPSIS \notin Units(cell) => Len(shown) >= Len(text)
                           /\ ELLIPSIS \in Units(cell) =>
                                  StringWidth(shown) + 1 = Max(1, pt.layout.innerWidth)

\* A table of 150 rows browsed without --full: 100 rows and "... 50 more rows".
C21_Witness ==
    /\ TableShown
    /\ ~cli.full
    /\ ShownTableRows = DEFAULT_LIMIT + 50
    /\ DrawnRows = DEFAULT_LIMIT
    /\ Contains(Plain(LastBodyLine), MoreRowsText(50))

\* The same table browsed with --full: 150 rows and no trailer.
C21_WitnessFull ==
    /\ TableShown
    /\ cli.full
    /\ ShownTableRows = DEFAULT_LIMIT + 50
    /\ DrawnRows = DEFAULT_LIMIT + 50
    /\ ~IsTrailer(LastBodyLine)

\* The diagnostic the claim describes for an error with this message.
ClaimedDiagnostic(message) ==
    << IF \/ Contains(message, <<"C", "o", "n", "n", "e", "c", "t", "i", "o", "n">>)
          \/ Contains(message, <<"c", "o", "n", "n", "e", "c", "t">>)
          \/ Contains(message, ConnectionRefused)
       THEN FailedToConnectTo \o Adapter \o <<":">>
       ELSE ErrorLine,
       message >>

\* C22: a failure while connecting, listing tables, fetching rows or running
\* the piped query ends the run with exit code 1 after the diagnostic
\* ("Failed to connect to <adapter>:" or "Error:", then the message) was
\* written to stderr; a run without such a failure never exits with code 1.
C22_ExitCodeOneIffFailure ==
    cli.pc = "exited" =>
        IF cli.raised \in FaultSites
        THEN cli.exitCode = 1 /\ cli.stderr = ClaimedDiagnostic(cli.fault.message)
        ELSE cli.exitCode # 1

---------------------------------------------------------------------------
(* Further claims about truncate and wrapLines *)

\* The prefix of n units of the text, plus the ellipsis, fits in maxWidth.
PrefixFits(n) == StringWidth(Slice(tr.str, 0, n)) + 1 <= tr.maxWidth
LongestFittingPrefix(n) ==
    /\ n \in 0..Len(tr.str)
    /\ PrefixFits(n)
    /\ \A m \in (n + 1)..Len(tr.str) : ~PrefixFits(m)
\* p, one ellipsis, and the color reset only when color is enabled
CutAfter(n) ==
    Slice(tr.str, 0, n) \o <<ELLIPSIS>> \o (IF tr.color THEN <<RESET>> ELSE <<>>)

\* C23 as stated: truncate returns the text unchanged if its display width
\* is <= maxWidth; otherwise p, one ellipsis (and the color reset only when
\* color is enabled), where p is the longest prefix of the text whose display
\* width + 1 is <= maxWidth.
C23_TruncateMatchesReference ==
    tr.pc = "done" =>
        IF StringWidth(tr.str) <= tr.maxWidth
        THEN tr.result = tr.str
        ELSE \E n \in 0..Len(tr.str) :
                 LongestFittingPrefix(n) /\ tr.result = CutAfter(n)

\* C23, amended: as stated for maxWidth >= 1; for maxWidth <= 0, where not
\* even the empty prefix leaves room for the ellipsis, a text that does not
\* fit comes back as the empty prefix and the ellipsis.
C23_TruncateMatchesReferenceOrEmpty ==
    tr.pc = "done" =>
        IF StringWidth(tr.str) <= tr.maxWidth
        THEN tr.result = tr.str
        ELSE IF tr.maxWidth >= 1
        THEN \E n \in 0..Len(tr.str) :
                 LongestFittingPrefix(n) /\ tr.result = CutAfter(n)
        ELSE tr.result = CutAfter(0)

\* A text was cut after a proper, non-empty prefix that ends before a
\* double-width glyph: one more unit would not fit.
C23_Witness ==
    /\ tr.pc = "done"
    /\ tr.pass = 1
    /\ tr.color
    /\ \E n \in 1..(Len(tr.str) - 1) :
           /\ tr.str[n + 1] = "W"
           /\ StringWidth(Slice(tr.str, 0, n)) + 1 < tr.maxWidth
           /\ tr.result = CutAfter(n)

---------------------------------------------------------------------------
(* Claims about the shrink loop *)

ShrinkProgress ==
    (sh.pc = "loop" /\ sh'.pc = "loop") =>
        /\ Sum(sh'.ws) = Sum(sh.ws) - 1
        /\ sh'.totalWidth = Sum(sh'.ws)

ShrinkExited ==
    sh.pc = "done" =>
        \/ Sum(sh.ws) <= sh.availableForColumns
        \/ \A i \in 1..Len(sh.ws) : sh.ws[i] = minColWidth

C24_WitnessBudget ==
    /\ sh.pc = "done"
    /\ sh.before # <<>>
    /\ Sum(sh.ws) = sh.availableForColumns
    /\ \E i \in 1..Len(sh.ws) : sh.ws[i] > minColWidth

\* C25: each iteration of the shrink loop decrements exactly one column, the
\* lowest-index column among those holding the current maximum width, by
\* exactly 1 and leaves every other column's width unchanged.
C25_ShrinkFirstWidest ==
    (sh.pc \in {"loop", "done"} /\ sh.before # <<>>) =>
        \E i \in 1..Len(sh.before) :
            /\ \A j \in 1..Len(sh.before) : sh.before[j] <= sh.before[i]
            /\ \A j \in 1..(i - 1) : sh.before[j] < sh.before[i]
            /\ sh.ws[i] = sh.before[i] - 1
            /\ Len(sh.ws) = Len(sh.before)
            /\ \A j \in 1..Len(sh.before) : j # i => sh.ws[j] = sh.before[j]

\* Two columns held the maximum, neither the first column of the table: the
\* earlier of the two was decremented.
C25_Witness ==
    /\ sh.pc = "loop"
    /\ sh.before # <<>>
    /\ Len(sh.before) = 3
    /\ sh.before[2] = sh.before[3]
    /\ sh.before[1] < sh.before[2]
    /\ sh.ws = <<sh.before[1], sh.before[2] - 1, sh.before[3]>>

---------------------------------------------------------------------------
(* Claims about the lines of a table *)

\* A text without the spaces around it.
Trim(s) ==
    LET inked == {j \in 1..Len(s) : s[j] # " "}
    IN  IF inked = {} THEN <<>>
        ELSE SubSeq(s, CHOOSE j \in inked : \A i \in inked : j <= i,
                       CHOOSE j \in inked : \A i \in inked : i <= j)

IsPrefix(p, s) == Len(p) <= Len(s) /\ SubSeq(s, 1, Len(p)) = p

\* What a line is, read off its first glyph (a trailer is told from a row
\* by its single cell that starts with the dots or the ellipsis).
LineKind(line) ==
    LET first == Head(Plain(line))
    IN  CASE first = BOX.topLeft -> "top"
          [] first = BOX.headerLeft -> "separator"
          [] first = BOX.bottomLeft -> "bottom"
          [] first = BOX.vertical -> IF IsTrailer(line) THEN "trailer" ELSE "cells"
          [] OTHER -> "other"

\* min(rows supplied, maxRows), maxRows 100 by default, no cap for Infinity
ExpectedDrawn ==
    CASE pt.options.maxRows.is = "unset" -> Min(Len(pt.rows), 100)
      [] pt.options.maxRows.is = "Infinity" -> Len(pt.rows)
      [] OTHER -> Min(Len(pt.rows), pt.options.maxRows.n)

\* The cell shows the value: all of its text (newlines written as \n), or
\* the start of it up to an ellipsis.
CellShows(cell, value) ==
    LET text == Plain(EscapeNewlines(formatValue(value, pt.color)))
        shown == Trim(cell)
    IN  IF ELLIPSIS \in Units(shown)
        THEN IsPrefix(BeforeEllipsis(shown), text)
        ELSE shown = Trim(text)

\* C26: in non-wrapped mode with a non-empty row set, exactly one line is
\* written per drawn row (a newline in a cell never adds a line), the number
\* of drawn rows is min(rows supplied, maxRows) with maxRows 100 by default
\* and no cap for Infinity, and the lines appear in the order: top border,
\* header, header separator, data rows in input order, optional trailer,
\* bottom border.
C26_OneLinePerRowInOrder ==
    (pt.pc = "done" /\ Len(pt.rows) > 0 /\ ~pt.options.fullContent) =>
        LET d == ExpectedDrawn
            n == Len(pt.out)
        IN  /\ \A j \in 1..n : "\n" \notin Units(pt.out[j])
            /\ \A j \in 1..n :
                   LineKind(pt.out[j]) =
                       CASE j = 1 -> "top"
                         [] j = 2 -> "cells"
                         [] j = 3 -> "separator"
                         [] j \in 4..(3 + d) -> "cells"
                         [] j = 3 + d + 1 /\ j < n -> "trailer"
                         [] j = 3 + d + 1 /\ j = n ->
                                IF pt.threw THEN "trailer" ELSE "bottom"
                         [] j = 3 + d + 2 -> "bottom"
                         [] OTHER -> "none"
            /\ ~pt.threw => n \in {3 + d + 1, 3 + d + 2}
            /\ \A k \in 1..Min(d, n - 3) :
                   /\ Len(Cells(pt.out[3 + k])) = Max(1, Len(pt.layout.columns))
                   /\ \A i \in 1..Len(pt.layout.columns) :
                          CellShows(Cells(pt.out[3 + k])[i], pt.rows[k][i])

\* 101 rows and no maxRows: 100 row lines in order, the trailer, the bottom.
C26_Witness ==
    /\ Rendered
    /\ ~pt.options.fullContent
    /\ pt.options.maxRows = Unset
    /\ Len(pt.rows) = 101
    /\ Len(pt.out) = 105
    /\ \A k \in 1..100 : Trim(Cells(pt.out[3 + k])[1]) = NumberToString(k)

\* A cell with a newline, shown in full on the one line of its row.
C26_WitnessNewline ==
    /\ Rendered
    /\ ~pt.options.fullContent
    /\ Len(pt.rows) = 2
    /\ Len(pt.out) = 6
    /\ \E k \in 1..2, i \in 1..Len(pt.layout.columns) :
           /\ pt.rows[k][i] = String(LongText)
           /\ Trim(Cells(pt.out[3 + k])[i]) = EscapeNewlines(LongText)

\* The last line of the rows of a rendered table: the one before the
\* trailer, if there is one, and the bottom border.
BodyEnd == Len(pt.out) - (IF pt.layout.infoText # <<>> THEN 2 ELSE 1)

\* The number of lines wrapLines makes of cell i of drawn row r.
WrappedLines(r, i) ==
    Len(wrapLines(pt.layout.visibleFormattedRows[r][i], pt.layout.visibleColWidths[i]))

\* The largest number of wrapped lines among the visible cells of drawn
\* row r, at least one.
ExpectedHeight(r) ==
    LET hs == {1} \cup {WrappedLines(r, i) : i \in 1..Len(pt.layout.columns)}
    IN  CHOOSE h \in hs : \A g \in hs : g <= h

\* The index of the first line of drawn row r, each row before it followed
\* by one separator.
RECURSIVE ExpectedStart(_)
ExpectedStart(r) ==
    IF r = 1 THEN 4 ELSE ExpectedStart(r - 1) + ExpectedHeight(r - 1) + 1

\* C27: in full-content mode each drawn row emits as many lines as the
\* largest number of wrapped lines among its visible cells (at least one),
\* cells with fewer lines are blank on the remaining lines, and a separator
\* is emitted after every drawn row except the last (n rows, n - 1
\* separators); in non-wrapped mode no row separator is emitted.
C27_FullContentRowLines ==
    Rendered =>
        LET d == Len(pt.layout.displayRows)
            separators == {k \in 4..BodyEnd : LineKind(pt.out[k]) = "separator"}
        IN  IF pt.options.fullContent
            THEN /\ separators =
                        {ExpectedStart(r) + ExpectedHeight(r) : r \in 1..(d - 1)}
                 /\ BodyEnd = ExpectedStart(d) + ExpectedHeight(d) - 1
                 /\ \A r \in 1..d, i \in 1..Len(pt.layout.columns) :
                        \A k \in (ExpectedStart(r) + WrappedLines(r, i))
                                   ..(ExpectedStart(r) + ExpectedHeight(r) - 1) :
                            k <= BodyEnd => Blank(Cells(pt.out[k])[i])
            ELSE separators = {}

\* C27 for rows that have at least one column.
C27_FullContentRowLinesWithColumns ==
    (Rendered /\ Len(pt.keys) >= 1) => C27_FullContentRowLines

\* Two rows in full-content mode, one of them three lines high with a cell
\* that is blank on its last line, and one separator between them.
C27_Witness ==
    /\ Rendered
    /\ pt.options.fullContent
    /\ Len(pt.layout.displayRows) = 2
    /\ Len(pt.layout.columns) >= 2
    /\ \E r \in 1..2, i \in 1..Len(pt.layout.columns) :
           /\ ExpectedHeight(r) >= 3
           /\ WrappedLines(r, i) < ExpectedHeight(r)
    /\ Cardinality({k \in 4..BodyEnd : LineKind(pt.out[k]) = "separator"}) = 1

---------------------------------------------------------------------------
(* Claims about the widths after hiding and compression *)

\* The call went past line 166: rows were given and at least one is drawn.
LaidOut == pt.pc = "done" /\ Len(pt.rows) > 0
           /\ Len(DisplayRows(pt.rows, pt.options.maxRows)) > 0

\* C28: for every terminal width >= 7 and every non-empty row set, after
\* column hiding and width compression the sum of the visible column widths
\* is at most the available width termWidth - (4 + 3 * (visible - 1)), so
\* that the content width is at most termWidth - 4.
C28_WidthsFitTerminal ==
    (LaidOut /\ pt.termWidth >= 7) =>
        /\ Sum(pt.layout.compressedWidths)
               <= pt.termWidth - (4 + 3 * (Len(pt.layout.columns) - 1))
        /\ pt.layout.contentWidth <= pt.termWidth - 4

\* The same without the bound on the terminal: narrower terminals have no
\* room for one column of the minimum width.
C28_WidthsFitEveryTerminal ==
    LaidOut =>
        Sum(pt.layout.compressedWidths)
            <= pt.termWidth - (4 + 3 * (Len(pt.layout.columns) - 1))

\* A column was hidden, the others were compressed and shrunk below their
\* fair widths, and they fill the available width exactly.
C28_Witness ==
    /\ LaidOut
    /\ pt.termWidth >= 7
    /\ pt.layout.hiddenCols > 0
    /\ Len(pt.layout.columns) >= 2
    /\ Sum(pt.layout.naturalWidths) > pt.layout.availableForColumns
    /\ Sum(FairWidths(pt.layout.naturalWidths, pt.layout.columns,
                      pt.layout.availableForColumns))
           > pt.layout.availableForColumns
    /\ Sum(pt.layout.compressedWidths) = pt.layout.availableForColumns

\* One column on the narrowest terminal of the claim: 3 units are left.
C28_WitnessNarrowest ==
    /\ LaidOut
    /\ pt.termWidth = 7
    /\ Len(pt.layout.columns) = 1
    /\ Sum(pt.layout.naturalWidths) > 3
    /\ pt.layout.compressedWidths = <<3>>

---------------------------------------------------------------------------
(* Claims about the text wrapLines returns *)

\* The lines one after the other, with nothing between them.
Concatenated(lines) == Join(lines, <<>>)

\* C29: wrapLines loses and reorders nothing: for every text and every
\* maxWidth, the returned lines concatenated in order are the text with
\* each newline replaced by one space (runs of spaces are kept), and there
\* is at least one line.
C29_WrapLinesKeepsText ==
    wl.pc = "done" =>
        LET all == Concatenated(wl.lines)
        IN  /\ Len(wl.lines) >= 1
            /\ Len(all) = Len(wl.str)
            /\ \A k \in 1..Len(wl.str) :
                   all[k] = IF wl.str[k] = "\n" THEN " " ELSE wl.str[k]

\* A newline next to a space, a run of two spaces between two words: three
\* lines or more hold the four units.
C29_Witness ==
    /\ wl.pc = "done"
    /\ wl.str = <<"a", "\n", " ", "W">>
    /\ wl.maxWidth = 1
    /\ Len(wl.lines) >= 3
    /\ Concatenated(wl.lines) = <<"a", " ", " ", "W">>

---------------------------------------------------------------------------
(* Claims about tables that need no compression *)

\* After the hiding loop the natural widths of the visible columns fit the
\* available width.
NothingToCompress ==
    LaidOut /\ Sum(pt.layout.naturalWidths) <= pt.layout.availableForColumns

\* The cell holds all of the text and no ellipsis.
InFull(cell, text) ==
    /\ ELLIPSIS \notin Units(cell)
    /\ Trim(cell) = Trim(Plain(text))

\* The line on which drawn row r starts.
RowStart(r) == IF pt.options.fullContent THEN ExpectedStart(r) ELSE 3 + r

\* C30: nothing is truncated unless necessary: if, after column hiding, the
\* natural widths of the visible columns (the larger of the header width
\* and the widest drawn cell) sum to at most the available width, then the
\* compression is skipped, every visible column keeps at least its natural
\* width, and every header and every drawn cell of a visible column is
\* written in full, without an ellipsis.
C30_NothingTruncatedUnlessNecessary ==
    NothingToCompress =>
        LET l == pt.layout
            n == Len(l.columns)
        IN  /\ l.compressedWidths = l.naturalWidths
            /\ \A i \in 1..n : l.visibleColWidths[i] >= l.naturalWidths[i]
            /\ \A i \in 1..n :
                   /\ Len(pt.out) >= 2
                   /\ InFull(Cells(pt.out[2])[i], l.columns[i])
            /\ \A r \in 1..Len(l.displayRows) : \A i \in 1..n :
                   /\ RowStart(r) <= Len(pt.out)
                   /\ InFull(Cells(pt.out[RowStart(r)])[i],
                             l.visibleFormattedRows[r][i])

\* Two columns or more whose natural widths fill the available width
\* exactly, one of them holding the long text: it is written in full.
C30_Witness ==
    /\ NothingToCompress
    /\ ~pt.options.fullContent
    /\ Len(pt.layout.columns) >= 2
    /\ Sum(pt.layout.naturalWidths) = pt.layout.availableForColumns
    /\ \E r \in 1..Len(pt.layout.displayRows) :
         \E i \in 1..Len(pt.layout.columns) :
           /\ pt.layout.visibleFormattedRows[r][i] = EscapeNewlines(LongText)
           /\ Trim(Cells(pt.out[3 + r])[i]) = EscapeNewlines(LongText)

\* The same in full-content mode, where the cell stays on one line.
C30_WitnessFullContent ==
    /\ NothingToCompress
    /\ pt.options.fullContent
    /\ Len(pt.layout.columns) >= 2
    /\ Sum(pt.layout.naturalWidths) = pt.layout.availableForColumns
    /\ \E r \in 1..Len(pt.layout.displayRows) :
         \E i \in 1..Len(pt.layout.columns) :
           /\ pt.layout.visibleFormattedRows[r][i] = EscapeNewlines(LongText)
           /\ Trim(Cells(pt.out[RowStart(r)])[i]) = EscapeNewlines(LongText)

====
